---- MODULE Spec2Model ----
(***************************************************************************)
(* A model of the obsidian-sync relay (obsidian-sync-server): the          *)
(* WebSocket gateway with its write serialization queue, the conflict      *)
(* resolver, the file metadata operations of SyncService, the file lock    *)
(* service, the connection table and the broadcast service.                *)
(*                                                                         *)
(* Time is counted in ticks of half a lock lease (fileLockExpiration is    *)
(* two ticks).  A JavaScript optional value is a sequence: << >> when it   *)
(* is undefined and <<v>> when it is v.  File content is a sequence of     *)
(* bytes; its SHA-256 digest is the tagged sequence <<"sha256">> \o bytes  *)
(* (a collision-free digest).                                              *)
(***************************************************************************)
EXTENDS Integers, Sequences, FiniteSets, TLC

\* ------------------------------------------------------------------ bounds

\* The clock and the client timestamps range over 0..MaxTime.
MaxTime == 3
\* The number of write-class tasks enqueued in one behaviour.
MaxTasks == 3
\* The number of chunks of a chunked upload is at most MaxChunks.
MaxChunks == 2
\* The rate limit, scaled down: messages per window (100 by default) and the
\* length of the window in ticks (30000 ms by default).
rateLimitMaxMessages == 2
rateLimitWindow == 1
\* The number of FileLock rows created in one behaviour.
MaxLocks == 3
\* The number of register-device handlers that await the Metadata Store at once.
MaxInFlight == 2
\* The clock of the heartbeat specification ranges over 0..MaxIdle.
MaxIdle == 8

\* --------------------------------------------------------------- constants

\* ConfigService.fileLockExpiration, in ticks.
fileLockExpiration == 2
\* ConfigService.heartbeatInterval, in ticks.
heartbeatInterval == 2
\* File.version of a newly created row (the schema's default).
DefaultVersion == 1

Vaults == {"V1", "V2"}
Devices == {"A", "B", "C"}
Conns == {"c1", "c2", "c3"}
Paths == {"a.md", "b.md"}
Contents == {<<1>>, <<2, 2>>}
Times == 0..MaxTime

\* An optional value: undefined, or one value of S.
Opt(S) == {<< >>} \cup {<<v>> : v \in S}

\* JavaScript truthiness of an optional number: undefined and 0 are falsy.
TruthyNum(o) == o # << >> /\ o[1] # 0
\* JavaScript truthiness of an optional string or hash: undefined and the
\* empty string are falsy.
TruthyStr(o) == o # << >> /\ o[1] # << >>

\* createHash('sha256').update(content).digest('hex')
calculateHash(content) == <<"sha256">> \o content
\* Buffer.byteLength(content, 'utf8')
calculateSize(content) == Len(content)

Hashes == {calculateHash(c) : c \in Contents}

VARIABLES
  now,               \* the server clock (Date.now())
  conflictData,      \* the argument of a resolveFileConflict call
  resolution,        \* what that call returned
  devices,           \* Metadata Store: the deviceIds of the Device rows
  files,             \* Metadata Store: the File rows
  nextFileId,        \* the id the next created File row gets
  locks,             \* Metadata Store: the FileLock rows
  nextLockId,        \* the id the next created FileLock row gets
  storage,           \* Content Store: the bytes stored per (vault, path)
  pendingIO,         \* Content Store operations started and not yet finished
  clients,           \* ConnectionManagerService.clients
  clientsByDeviceId, \* ConnectionManagerService.clientsByDeviceId
  readyState,        \* ws.readyState of each socket
  chunkSessions,     \* ChunkSessionService.chunkSessions
  chunkState,        \* ws.chunkState of each socket
  tasks,             \* the tasks chained on writeOpQueue and not yet settled
  writeOpQueue,      \* the task whose settlement the gateway's queue promise awaits
  nextTaskId,        \* the number the next enqueued task gets
  settled,           \* the settled tasks, in the order they settled
  rejected,          \* the settled tasks whose promise was rejected
  sent,              \* the frames the last step sent to each socket
  handled,           \* the frame the last step's handler processed, and its result
  inFlight,          \* the register-device handlers that await the Metadata Store
  health,            \* setupConnectionHealth: isAlive and the heartbeat timer of each socket
  pings,             \* the sockets with a ping sent and not yet answered
  lockCalls,         \* the requestFileLock transactions that have read and not yet written
  completions,       \* the completeUpload calls that await the Content Store write
  activeUploads,     \* the plugin's ChunkManager: the upload state of each path
  chunkTimers,       \* the plugin's ChunkManager: the chunk sends its timers will make
  completed,         \* the plugin's ChunkManager: the calls of onComplete, in order
  outbox,            \* the frames the plugin has sent and the server has not yet received
  inbox              \* the chunk-upload-response frames on their way to the plugin

pureVars == <<conflictData, resolution>>
dbVars == <<devices, files, nextFileId, locks, nextLockId>>
ioVars == <<storage, pendingIO>>
connVars == <<clients, clientsByDeviceId, readyState>>
chunkVars == <<chunkSessions, chunkState>>
queueVars == <<tasks, writeOpQueue, nextTaskId, settled, rejected>>
obsVars == <<sent, handled>>
pluginVars == <<activeUploads, chunkTimers, completed, outbox, inbox>>
healthVars == <<inFlight, health, pings, lockCalls, completions, pluginVars>>
vars == <<now, pureVars, dbVars, ioVars, connVars, chunkVars, queueVars, obsVars,
          healthVars>>

\* ------------------------------------------------------- conflict resolver

NoResolution == [action |-> "none", conflictType |-> "none", updated |-> "none",
                 currentVersion |-> << >>, currentHash |-> << >>]

Outcome(action, conflictType, updated, existing) ==
  [action |-> action, conflictType |-> conflictType, updated |-> updated,
   currentVersion |-> IF action = "reject" THEN <<existing.version>> ELSE << >>,
   currentHash |-> IF action = "reject" THEN <<existing.hash>> ELSE << >>]

\* const clientMtime = clientTimestamp ? new Date(clientTimestamp) : new Date()
clientMtimeOf(clientTimestamp, t) ==
  IF TruthyNum(clientTimestamp) THEN clientTimestamp[1] ELSE t

\* ConflictResolverService.resolveFileConflict, called at time t
resolveFileConflict(data, t) ==
  IF data.existingFile = << >>
  THEN [NoResolution EXCEPT !.action = "accept", !.updated = "created"]
  ELSE
    LET existingFile == data.existingFile[1]
        clientMtime == clientMtimeOf(data.clientTimestamp, t)
    IN  IF TruthyStr(data.previousHash) /\ existingFile.hash # data.previousHash[1]
        THEN Outcome("reject", "hash_mismatch", "none", existingFile)
        ELSE IF existingFile.hash = data.clientHash
        THEN IF clientMtime > existingFile.mtime
             THEN Outcome("update_mtime_only", "none", "mtime_only", existingFile)
             ELSE Outcome("no_change", "none", "no_change", existingFile)
        ELSE IF ~TruthyStr(data.previousHash) /\ clientMtime <= existingFile.mtime
        THEN Outcome("reject", "older_timestamp", "none", existingFile)
        ELSE Outcome("accept", "none", "full", existingFile)

\* The stored FileRecord fields the resolver reads.
ExistingFiles ==
  [hash : Hashes, mtime : Times, version : {1, 2}]

ConflictInputs ==
  [existingFile : Opt(ExistingFiles), clientHash : Hashes,
   clientTimestamp : Opt(Times), previousHash : Opt(Hashes)]

\* ------------------------------------------------------------ server state

\* The largest content the server accepts, in bytes.
maxFileSize == 52428800

NoHandled == [type |-> "none"]

\* A frame the server sends.  Every frame has the same fields; those a frame
\* kind does not carry keep the values below.
BlankFrame ==
  [type |-> "", vaultId |-> "", filePath |-> "", newPath |-> "", deviceId |-> "",
   content |-> << >>, hash |-> << >>, version |-> 0, success |-> FALSE,
   timestamp |-> 0, code |-> "", missingChunks |-> << >>]

\* SyncException.toResponse(): the error frame of errorHandler.sendErrorToClient
ErrorFrame(code) == [BlankFrame EXCEPT !.type = "error", !.code = code]

\* ------------------------------------------------------ connection manager

\* A removal that removes nothing.
keepClientTables(ws, cl, byDev) == [clients |-> cl, byDevice |-> byDev]

\* ConnectionManagerService.removeClient: the two tables without ws
removeClientTables(ws, cl, byDev) ==
  IF cl[ws] = << >>
  THEN [clients |-> cl, byDevice |-> byDev]
  ELSE [clients |-> [cl EXCEPT ![ws] = << >>],
        byDevice |-> [byDev EXCEPT ![cl[ws][1].deviceId] = << >>]]

\* ConnectionManagerService.updateClientActivity at time t: lastSeen of a
\* registered socket
updateClientActivity(ws, cl, t) ==
  IF cl[ws] = << >> THEN cl ELSE [cl EXCEPT ![ws] = <<[@[1] EXCEPT !.lastSeen = t]>>]

\* ConnectionManagerService.checkRateLimit at time t: whether the message is
\* allowed, and the connection table with the counter of ws brought up to date
checkRateLimit(ws, t) ==
  LET fresh == <<[messageCount |-> 1, windowStart |-> t, lastMessageTime |-> t]>>
      counted(info) == [clients EXCEPT ![ws] = <<[@[1] EXCEPT !.rateLimitInfo = info]>>]
  IN  IF clients[ws] = << >> THEN [allowed |-> TRUE, clients |-> clients]
      ELSE LET rateLimitInfo == clients[ws][1].rateLimitInfo
           IN  IF rateLimitInfo = << >>
               THEN [allowed |-> TRUE, clients |-> counted(fresh)]
               ELSE IF t - rateLimitInfo[1].windowStart > rateLimitWindow
               THEN [allowed |-> TRUE, clients |-> counted(fresh)]
               ELSE IF rateLimitInfo[1].messageCount >= rateLimitMaxMessages
               THEN [allowed |-> FALSE, clients |-> clients]
               ELSE [allowed |-> TRUE,
                     clients |-> counted(<<[rateLimitInfo[1] EXCEPT
                                    !.messageCount = @ + 1,
                                    !.lastMessageTime = t]>>)]

\* ConnectionManagerService.getClientsByVault
getClientsByVault(vaultId) ==
  {c \in Conns : clients[c] # << >> /\ clients[c][1].vaultId = vaultId}

\* ------------------------------------------------------- broadcast service

\* BroadcastService.sendMessage: a frame reaches ws only while it is open
CanSend(ws) == readyState[ws] = "OPEN"

\* A broadcast that leaves no device out.
broadcastToEveryDevice(vaultId, excludeDeviceId) ==
  {c \in getClientsByVault(vaultId) : CanSend(c)}

\* BroadcastService.broadcastToVault: the sockets the frame is sent to
broadcastToVault(vaultId, excludeDeviceId) ==
  {c \in getClientsByVault(vaultId) :
     clients[c][1].deviceId # excludeDeviceId /\ CanSend(c)}

\* A handler that sends nothing once its own socket has closed.
SendsWhileSenderOpen(ws, direct, recipients, bcast) ==
  [c \in Conns |->
     IF ~CanSend(ws) THEN {}
     ELSE (IF c = ws THEN direct ELSE {}) \cup (IF c \in recipients THEN bcast ELSE {})]

\* The frames one handler sent: `direct` to ws, `bcast` to each of `recipients`.
Sends(ws, direct, recipients, bcast) ==
  [c \in Conns |->
     (IF c = ws /\ CanSend(ws) THEN direct ELSE {})
       \cup (IF c \in recipients THEN bcast ELSE {})]

NothingSent == [c \in Conns |-> {}]

\* ------------------------------------------------------------ sync service

\* A FileOperationResult, or the error the operation threw.
NoResult ==
  [error |-> "none", success |-> FALSE, version |-> 0, hash |-> << >>,
   updated |-> "none", conflictType |-> "none",
   currentVersion |-> << >>, currentHash |-> << >>, missingChunks |-> << >>]

Thrown(code) == [NoResult EXCEPT !.error = code]

\* The SyncOperation row of a transaction: the values its status was set to, in
\* order, and whether the transaction that wrote them committed.
NoSyncOp == [statuses |-> << >>, committed |-> FALSE]

\* What a transaction leaves: its result, the File and FileLock rows, the next
\* row id, the Content Store operations it started, and its SyncOperation row.
Tx(result, fs, ls, nid, io) ==
  [result |-> result, files |-> fs, locks |-> ls, nextFileId |-> nid, io |-> io,
   syncOp |-> NoSyncOp]

\* The transaction returned: its row, created pending and finalized, is committed.
Committed(tx, status) ==
  [tx EXCEPT !.syncOp = [statuses |-> <<"pending", status>>, committed |-> TRUE]]

\* The transaction set the row to conflicted and threw inside its try block:
\* the catch block sets the row to failed and throws again, and the
\* transaction is rolled back.
RolledBack(tx) ==
  [tx EXCEPT !.syncOp = [statuses |-> <<"pending", "conflicted", "failed">>,
                         committed |-> FALSE]]

NoChange(result) == Tx(result, files, locks, nextFileId, {})

\* tx.file.findFirst({ where: { vaultId, path } })
findFirst(vaultId, path) ==
  LET found == {f \in files : f.vaultId = vaultId /\ f.path = path}
  IN  IF found = {} THEN << >> ELSE <<CHOOSE f \in found : TRUE>>

\* An update that leaves the version as it is.
KeepVersion(v) == v

\* version: { increment: 1 }
IncrementVersion(v) == v + 1

\* SyncService.processCreateUpdateOperation at time t
processCreateUpdateOperation(data, t) ==
  LET hash == calculateHash(data.content)
      contentSize == calculateSize(data.content)
      existing == findFirst(data.vaultId, data.filePath)
      mtime == clientMtimeOf(data.clientTimestamp, t)
      write == {[op |-> "write", vaultId |-> data.vaultId, path |-> data.filePath,
                 newPath |-> "", content |-> data.content]}
  IN
  IF contentSize > maxFileSize THEN NoChange(Thrown("FILE_TOO_LARGE"))
  ELSE IF existing # << >>
  THEN
    LET existingFile == existing[1]
        res == resolveFileConflict(
                 [existingFile |-> existing, clientHash |-> hash,
                  clientTimestamp |-> data.clientTimestamp,
                  previousHash |-> data.previousHash], t)
        bumped == [existingFile EXCEPT !.mtime = mtime,
                                       !.version = IncrementVersion(@)]
        full == [bumped EXCEPT !.hash = hash, !.size = contentSize]
    IN  CASE res.action = "reject" ->
               Committed(NoChange([NoResult EXCEPT
                 !.success = FALSE, !.version = existingFile.version,
                 !.hash = existingFile.hash, !.conflictType = res.conflictType,
                 !.currentVersion = res.currentVersion,
                 !.currentHash = res.currentHash]), "conflicted")
          [] res.action = "update_mtime_only" ->
               Committed(
                 Tx([NoResult EXCEPT !.success = TRUE, !.version = bumped.version,
                                     !.hash = hash, !.updated = res.updated],
                    (files \ {existingFile}) \cup {bumped}, locks, nextFileId, {}),
                 "applied")
          [] res.action = "no_change" ->
               Committed(NoChange([NoResult EXCEPT !.success = TRUE,
                 !.version = existingFile.version, !.hash = hash,
                 !.updated = res.updated]), "applied")
          [] OTHER ->
               Committed(
                 Tx([NoResult EXCEPT !.success = TRUE, !.version = full.version,
                                     !.hash = hash, !.updated = res.updated],
                    (files \ {existingFile}) \cup {full}, locks, nextFileId, write),
                 "applied")
  ELSE
    LET newFile == [id |-> nextFileId, vaultId |-> data.vaultId,
                    path |-> data.filePath, hash |-> hash, size |-> contentSize,
                    mtime |-> mtime, version |-> DefaultVersion]
    IN  Committed(
          Tx([NoResult EXCEPT !.success = TRUE, !.version = newFile.version,
                              !.hash = hash, !.updated = "created"],
             files \cup {newFile}, locks, nextFileId + 1, write),
          "applied")

\* ConflictResolverService.resolveDeleteConflict
resolveDeleteConflict(existing, hasActiveLocks) ==
  IF existing = << >> THEN "accept"
  ELSE IF hasActiveLocks THEN "reject"
  ELSE "accept"

\* SyncService.processDeleteOperation
processDeleteOperation(data) ==
  LET existing == findFirst(data.vaultId, data.filePath)
      \* the service passes no hasActiveLocks argument: undefined
      action == resolveDeleteConflict(existing, FALSE)
  IN  IF action = "reject"
      THEN RolledBack(NoChange(Thrown("INTERNAL_SERVER_ERROR")))
      ELSE IF existing = << >>
      THEN Committed(NoChange([NoResult EXCEPT !.success = TRUE]), "applied")
      ELSE Committed(
             Tx([NoResult EXCEPT !.success = TRUE],
                files \ {existing[1]},
                {l \in locks : l.fileId # existing[1].id},
                nextFileId,
                {[op |-> "delete", vaultId |-> data.vaultId, path |-> data.filePath,
                  newPath |-> "", content |-> << >>]}),
             "applied")

\* ConflictResolverService.resolveRenameConflict
\* A verdict that accepts a rename onto an occupied path.
renameOverTarget(existing, targetExists) ==
  IF existing = << >> THEN "source_not_found" ELSE "accept"

resolveRenameConflict(existing, targetExists) ==
  IF existing = << >> THEN "source_not_found"
  ELSE IF targetExists THEN "target_exists"
  ELSE "accept"

\* SyncService.processRenameOperation at time t
processRenameOperation(data, t) ==
  LET existing == findFirst(data.vaultId, data.filePath)
      targetExists == findFirst(data.vaultId, data.newPath) # << >>
      verdict == resolveRenameConflict(existing, targetExists)
  IN  IF verdict # "accept"
      THEN RolledBack(NoChange(Thrown("INTERNAL_SERVER_ERROR")))
      ELSE
        LET updatedFile == [existing[1] EXCEPT !.path = data.newPath, !.mtime = t,
                                               !.version = IncrementVersion(@)]
        IN  Committed(
              Tx([NoResult EXCEPT !.success = TRUE, !.version = updatedFile.version,
                                  !.hash = updatedFile.hash],
                 (files \ {existing[1]}) \cup {updatedFile}, locks, nextFileId,
                 {[op |-> "rename", vaultId |-> data.vaultId, path |-> data.filePath,
                   newPath |-> data.newPath, content |-> << >>]}),
              "applied")

\* SyncService.processFileChange at time t
processFileChange(data, t) ==
  IF data.deviceId \notin devices THEN NoChange(Thrown("DEVICE_NOT_FOUND"))
  ELSE CASE data.operationType = "DELETE" -> processDeleteOperation(data)
         [] data.operationType = "RENAME" ->
              IF data.newPath = "" THEN NoChange(Thrown("INTERNAL_SERVER_ERROR"))
              ELSE processRenameOperation(data, t)
         [] OTHER -> processCreateUpdateOperation(data, t)

\* --------------------------------------------------------- message handler

\* A frame a client sends.  Every frame has the same fields; those a frame kind
\* does not carry keep the values below (an absent string is empty).
BlankMessage ==
  [type |-> "", vaultId |-> "", deviceId |-> "", filePath |-> "", newPath |-> "",
   content |-> << >>, hash |-> << >>, timestamp |-> << >>, previousHash |-> << >>,
   resolution |-> "", fileSize |-> << >>, totalChunks |-> 0, chunkIndex |-> 0,
   chunkHash |-> << >>, chunkSize |-> 0]

\* The FileOperationData a handler passes to processFileChange.
OperationData(message, operationType) ==
  [vaultId |-> message.vaultId, deviceId |-> message.deviceId,
   filePath |-> message.filePath, newPath |-> message.newPath,
   content |-> message.content, operationType |-> operationType,
   previousHash |-> << >>, clientTimestamp |-> message.timestamp]

\* What a handler leaves: the error it threw (or "none"), the transaction it
\* ran, the frame to broadcast, the response, the chunk sessions, the Content
\* Store, and the status of the SyncOperation row the handler itself created
\* after the operation (none unless Recorded).
Handled(error, tx, broadcast, response, sessions, store) ==
  [error |-> error, tx |-> tx, broadcast |-> broadcast, response |-> response,
   sessions |-> sessions, storage |-> store, recorded |-> << >>]

\* prisma.syncOperation.create({ data: { ..., status: 'applied' } })
Recorded(h) == [h EXCEPT !.recorded = <<"applied">>]

Returned(tx, broadcast, response) ==
  Handled("none", tx, broadcast, response, chunkSessions, storage)

HandlerThrew(code, tx) == Handled(code, tx, {}, {}, chunkSessions, storage)

\* The file-change-response frame of a handler
ChangeResponse(filePath, result) ==
  [BlankFrame EXCEPT !.type = "file-change-response", !.success = TRUE,
     !.filePath = filePath, !.hash = result.hash, !.version = result.version]

\* MessageHandlerService.handleFileChange at time t
handleFileChange(message, t) ==
  LET calculatedHash == calculateHash(message.content)
      \* previousHash: undefined
      tx == processFileChange(OperationData(message, "UPDATE"), t)
      result == tx.result
  IN  IF message.hash # calculatedHash
      THEN HandlerThrew("HASH_MISMATCH", NoChange(Thrown("HASH_MISMATCH")))
      ELSE IF result.error # "none" THEN HandlerThrew(result.error, tx)
      \* syncOperation.create with timestamp: new Date(undefined)
      ELSE IF message.timestamp = << >> THEN HandlerThrew("DATABASE_ERROR", tx)
      ELSE Recorded(Returned(tx,
             {[BlankFrame EXCEPT !.type = "file-change",
                 !.vaultId = message.vaultId, !.filePath = message.filePath,
                 !.content = message.content, !.hash = message.hash,
                 !.timestamp = message.timestamp[1], !.deviceId = message.deviceId]},
             {ChangeResponse(message.filePath, result)}))

\* buffer.toString('base64')
toBase64(bytes) == <<"base64">> \o bytes
\* Buffer.from(content, 'base64'): what is not base64 decodes to no bytes
fromBase64(content) ==
  IF Len(content) > 0 /\ content[1] = "base64" THEN Tail(content) ELSE << >>

\* MessageHandlerService.handleBinaryFileChange at time t
handleBinaryFileChange(message, t) ==
  LET calculatedHash == calculateHash(fromBase64(message.content))
      tx == processFileChange(OperationData(message, "UPDATE"), t)
      result == tx.result
  IN  IF message.hash # calculatedHash
      THEN HandlerThrew("HASH_MISMATCH", NoChange(Thrown("HASH_MISMATCH")))
      ELSE IF result.error # "none" THEN HandlerThrew(result.error, tx)
      ELSE Returned(tx,
             {[BlankFrame EXCEPT !.type = "binary-file-change",
                 !.vaultId = message.vaultId, !.filePath = message.filePath,
                 !.content = message.content, !.hash = message.hash,
                 !.timestamp = IF message.timestamp = << >> THEN 0
                               ELSE message.timestamp[1],
                 !.deviceId = message.deviceId]},
             {ChangeResponse(message.filePath, result)})

\* MessageHandlerService.handleFileDelete at time t
handleFileDelete(message, t) ==
  LET tx == processFileChange(
              [OperationData(message, "DELETE") EXCEPT !.content = << >>,
                                                       !.clientTimestamp = << >>], t)
      result == tx.result
  IN  IF result.error # "none" THEN HandlerThrew(result.error, tx)
      ELSE IF ~result.success THEN HandlerThrew("INTERNAL_SERVER_ERROR", tx)
      ELSE Returned(tx,
             {[BlankFrame EXCEPT !.type = "file-delete", !.vaultId = message.vaultId,
                 !.filePath = message.filePath, !.timestamp = t]},
             {[BlankFrame EXCEPT !.type = "file-delete-success", !.success = TRUE,
                 !.filePath = message.filePath]})

\* MessageHandlerService.handleFileRename at time t (filePath is oldPath)
handleFileRename(message, t) ==
  LET tx == processFileChange(
              [OperationData(message, "RENAME") EXCEPT !.content = << >>], t)
      result == tx.result
  IN  IF result.error # "none" THEN HandlerThrew(result.error, tx)
      ELSE Returned(tx,
             {[BlankFrame EXCEPT !.type = "file-rename", !.vaultId = message.vaultId,
                 !.filePath = message.filePath, !.newPath = message.newPath,
                 !.timestamp = IF message.timestamp = << >> THEN 0
                               ELSE message.timestamp[1],
                 !.deviceId = message.deviceId]},
             {ChangeResponse(message.newPath, result)})

\* MessageHandlerService.handleResolveConflict at time t
handleResolveConflict(message, t) ==
  LET tx == processFileChange(OperationData(message, "UPDATE"), t)
      existingFile == findFirst(message.vaultId, message.filePath)
      reply(result) ==
        Returned(IF message.resolution = "accept-server" THEN NoChange(result) ELSE tx,
          {[BlankFrame EXCEPT !.type = "file-change", !.vaultId = message.vaultId,
              !.filePath = message.filePath, !.content = message.content,
              !.hash = result.hash,
              !.timestamp = IF message.timestamp = << >> THEN 0
                            ELSE message.timestamp[1],
              !.deviceId = message.deviceId]},
          {ChangeResponse(message.filePath, result)})
  IN  CASE message.resolution \in {"accept-client", "merge"} ->
             IF message.content = << >> \/ message.hash = << >>
             THEN HandlerThrew("INVALID_MESSAGE_FORMAT",
                               NoChange(Thrown("INVALID_MESSAGE_FORMAT")))
             ELSE IF tx.result.error # "none" THEN HandlerThrew(tx.result.error, tx)
             ELSE reply(tx.result)
        [] message.resolution = "accept-server" ->
             IF existingFile = << >>
             THEN HandlerThrew("INTERNAL_SERVER_ERROR",
                               NoChange(Thrown("INTERNAL_SERVER_ERROR")))
             ELSE reply([NoResult EXCEPT !.success = TRUE,
                           !.version = existingFile[1].version,
                           !.hash = existingFile[1].hash])
        [] OTHER -> HandlerThrew("INVALID_MESSAGE_FORMAT",
                                 NoChange(Thrown("INVALID_MESSAGE_FORMAT")))

\* ----------------------------------------------------- chunk session service

\* ChunkSessionService.buildSessionId: `${vaultId}:${clientId}:${filePath}`
buildSessionId(vaultId, clientId, filePath) == <<vaultId, ":", clientId, ":", filePath>>

SessionIds == {buildSessionId(v, d, p) : v \in Vaults, d \in Devices, p \in Paths}

ChunkIndexes == 0..(MaxChunks - 1)

\* receivedChunks is a Map<number, Buffer>: its entries in insertion order.
MapHas(map, key) == \E i \in 1..Len(map) : map[i].key = key

MapGet(map, key) == map[CHOOSE i \in 1..Len(map) : map[i].key = key].value

\* Map.set: a new key goes to the end, a present key keeps its place
MapSet(map, key, value) ==
  IF MapHas(map, key)
  THEN [i \in 1..Len(map) |-> IF map[i].key = key
                               THEN [key |-> key, value |-> value] ELSE map[i]]
  ELSE Append(map, [key |-> key, value |-> value])

\* A session that takes over the chunks of the session it replaces.
createSessionKeepingChunks(sessions, sessionId, vaultId, filePath, fileHash, fileSize, totalChunks, clientId, t) ==
  [sessions EXCEPT ![sessionId] =
     <<[filePath |-> filePath, fileHash |-> fileHash, fileSize |-> fileSize,
        totalChunks |-> totalChunks,
        receivedChunks |-> IF chunkSessions[sessionId] = << >> THEN << >>
                           ELSE chunkSessions[sessionId][1].receivedChunks,
        lastActivity |-> t, clientId |-> clientId, vaultId |-> vaultId]>>]

\* ChunkSessionService.createSession at time t
createSession(sessions, sessionId, vaultId, filePath, fileHash, fileSize, totalChunks, clientId, t) ==
  [sessions EXCEPT ![sessionId] =
     <<[filePath |-> filePath, fileHash |-> fileHash, fileSize |-> fileSize,
        totalChunks |-> totalChunks,
        receivedChunks |-> << >>,
        lastActivity |-> t, clientId |-> clientId, vaultId |-> vaultId]>>]

\* ChunkSessionService.cancelSession
cancelSession(sessions, sessionId) == [sessions EXCEPT ![sessionId] = << >>]

\* A store that keeps the chunk whatever its hash.
storeChunkUnverified(sessions, sessionId, chunkIndex, chunkData, chunkHash, t) ==
  IF sessions[sessionId] = << >>
  THEN [success |-> FALSE, sessions |-> sessions]
  ELSE [success |-> calculateHash(chunkData) = chunkHash,
        sessions |-> [sessions EXCEPT ![sessionId] =
          <<[@[1] EXCEPT !.receivedChunks = MapSet(@, chunkIndex, chunkData),
                         !.lastActivity = t]>>]]

\* ChunkSessionService.storeChunk at time t
storeChunk(sessions, sessionId, chunkIndex, chunkData, chunkHash, t) ==
  IF sessions[sessionId] = << >>
  THEN [success |-> FALSE, sessions |-> sessions]
  ELSE IF calculateHash(chunkData) # chunkHash
  THEN [success |-> FALSE, sessions |-> sessions]
  ELSE [success |-> TRUE,
        sessions |-> [sessions EXCEPT ![sessionId] =
          <<[@[1] EXCEPT !.receivedChunks = MapSet(@, chunkIndex, chunkData),
                         !.lastActivity = t]>>]]

\* The chunks joined in the order they arrived.
RECURSIVE concatInArrivalOrder(_, _)
concatInArrivalOrder(receivedChunks, n) ==
  IF n = 0 \/ receivedChunks = << >> THEN << >>
  ELSE receivedChunks[1].value \o concatInArrivalOrder(Tail(receivedChunks), n - 1)

\* Buffer.concat of the chunks 0 .. n-1
RECURSIVE concatChunks(_, _)
concatChunks(receivedChunks, n) ==
  IF n = 0 THEN << >>
  ELSE concatChunks(receivedChunks, n - 1) \o MapGet(receivedChunks, n - 1)

\* ChunkSessionService.completeUpload
completeUpload(sessionId) ==
  LET failed == [success |-> FALSE, fileHash |-> << >>, fileSize |-> 0,
                 missingChunks |-> << >>,
                 sessions |-> chunkSessions, storage |-> storage]
  IN  IF chunkSessions[sessionId] = << >> THEN failed
      ELSE
        LET session == chunkSessions[sessionId][1]
            missingChunks == {i \in 0..(session.totalChunks - 1) :
                                ~MapHas(session.receivedChunks, i)}
            finalBuffer == concatChunks(session.receivedChunks, session.totalChunks)
            calculatedHash == calculateHash(finalBuffer)
        IN  IF missingChunks # {}
            THEN [failed EXCEPT !.missingChunks = <<missingChunks>>]
            ELSE IF Len(finalBuffer) # session.fileSize THEN failed
            ELSE IF calculatedHash # session.fileHash THEN failed
            ELSE [success |-> TRUE, fileHash |-> calculatedHash,
                  fileSize |-> Len(finalBuffer), missingChunks |-> << >>,
                  sessions |-> cancelSession(chunkSessions, sessionId),
                  storage |-> [storage EXCEPT
                     ![<<session.vaultId, session.filePath>>] =
                        <<toBase64(finalBuffer)>>]]

\* MessageHandlerService.recordChunkUploadResult
recordChunkUploadResult(vaultId, deviceId, filePath, fileHash, fileSize, timestamp) ==
  LET existing == findFirst(vaultId, filePath)
  IN  IF deviceId \notin devices THEN NoChange(Thrown("DEVICE_NOT_FOUND"))
      ELSE IF existing # << >>
      THEN LET updatedFile == [existing[1] EXCEPT !.hash = fileHash,
                                 !.size = fileSize, !.mtime = timestamp,
                                 !.version = IncrementVersion(@)]
           IN  Tx([NoResult EXCEPT !.success = TRUE, !.hash = fileHash,
                                   !.version = updatedFile.version,
                                   !.updated = "full"],
                  (files \ {existing[1]}) \cup {updatedFile}, locks, nextFileId, {})
      ELSE LET newFile == [id |-> nextFileId, vaultId |-> vaultId, path |-> filePath,
                           hash |-> fileHash, size |-> fileSize, mtime |-> timestamp,
                           version |-> DefaultVersion]
           IN  Tx([NoResult EXCEPT !.success = TRUE, !.hash = fileHash,
                                   !.version = newFile.version,
                                   !.updated = "created"],
                  files \cup {newFile}, locks, nextFileId + 1, {})

\* The chunk-upload-response frame
ChunkResponse(filePath, success, chunkIndex) ==
  [BlankFrame EXCEPT !.type = "chunk-upload-response", !.filePath = filePath,
     !.success = success, !.version = chunkIndex]

\* WebSocketGateway.handleChunkUploadComplete at time t, once completeUpload
\* has returned completion
recordCompletion(message, completion, t) ==
  LET \* message.fileHash || message.hash || completion.fileHash
      fileHash == IF message.hash # << >> THEN message.hash ELSE completion.fileHash
      \* message.fileSize || message.totalSize || completion.fileSize
      fileSize == IF TruthyNum(message.fileSize) THEN message.fileSize[1]
                  ELSE completion.fileSize
      \* message.timestamp || Date.now()
      tx == recordChunkUploadResult(message.vaultId, message.deviceId,
              message.filePath, fileHash, fileSize,
              clientMtimeOf(message.timestamp, t))
  IN  IF ~completion.success
      THEN Returned(NoChange([NoResult EXCEPT !.updated = "incomplete",
                               !.missingChunks = completion.missingChunks]), {},
                    {[ChunkResponse(message.filePath, FALSE, -1) EXCEPT
                        !.missingChunks = completion.missingChunks]})
      ELSE IF tx.result.error # "none"
      THEN Handled(tx.result.error, tx, {}, {}, completion.sessions,
                   completion.storage)
      ELSE Recorded(Handled("none", tx, {}, {ChunkResponse(message.filePath, TRUE, -1)},
                            completion.sessions, completion.storage))

\* WebSocketGateway.handleChunkUploadComplete at time t
handleChunkUploadComplete(message, t) ==
  LET sessionId == buildSessionId(message.vaultId, message.deviceId, message.filePath)
      completion == IF sessionId \in SessionIds THEN completeUpload(sessionId)
                    ELSE [success |-> FALSE, missingChunks |-> << >>]
  IN  recordCompletion(message, completion, t)

\* ------------------------------------------------------- file lock service

\* A check that takes every device for the holder.
AnyHolder(lock, deviceId) == TRUE

\* existingLock.deviceId === device.id
SameHolder(lock, deviceId) == lock.deviceId = deviceId

\* A lease counted from time zero and not from the request.
LeaseNotExtended(t) == fileLockExpiration

\* new Date(Date.now() + lockExpiration)
LeaseExpiry(t) == t + fileLockExpiration

\* FileLockService.requestFileLock at time t: one transaction.  A FileLock row
\* is unique per fileId.
requestFileLock(vaultId, filePath, deviceId, t) ==
  LET file == findFirst(vaultId, filePath)
      denied == [success |-> FALSE, expiresAt |-> << >>, locks |-> locks,
                 nextLockId |-> nextLockId]
  IN  IF deviceId \notin devices THEN denied
      ELSE IF file = << >> THEN denied
      ELSE
        LET found == {l \in locks : l.fileId = file[1].id}
            existingLock == IF found = {} THEN << >> ELSE <<CHOOSE l \in found : TRUE>>
            expiresAt == LeaseExpiry(t)
        IN  IF existingLock # << >> /\ existingLock[1].expiresAt > t
            THEN IF SameHolder(existingLock[1], deviceId)
                 THEN [success |-> TRUE, expiresAt |-> <<expiresAt>>,
                       locks |-> (locks \ found)
                                   \cup {[existingLock[1] EXCEPT !.expiresAt = expiresAt,
                                                              !.lockedAt = t]},
                       nextLockId |-> nextLockId]
                 ELSE [denied EXCEPT !.expiresAt = <<existingLock[1].expiresAt>>]
            ELSE
              LET cleaned == locks \ found
                  newLock == [id |-> nextLockId, vaultId |-> vaultId,
                              fileId |-> file[1].id, deviceId |-> deviceId,
                              lockedAt |-> t, expiresAt |-> expiresAt]
              IN  \* the unique constraint on fileId: P2002
                  IF \E l \in cleaned : l.fileId = newLock.fileId THEN denied
                  ELSE [success |-> TRUE, expiresAt |-> <<expiresAt>>,
                        locks |-> cleaned \cup {newLock},
                        nextLockId |-> nextLockId + 1]

\* FileLockService.releaseFileLock: one transaction.  deviceId is optional; the
\* rows are filtered by owner only when it is given and has a Device row.
releaseFileLock(vaultId, filePath, deviceId) ==
  LET file == findFirst(vaultId, filePath)
  IN  IF file = << >> THEN [released |-> FALSE, locks |-> locks]
      ELSE LET byOwner == deviceId # << >> /\ deviceId[1] # "" /\ deviceId[1] \in devices
               deletedLocks == {l \in locks : /\ l.fileId = file[1].id
                                               /\ byOwner => l.deviceId = deviceId[1]}
           IN  [released |-> deletedLocks # {}, locks |-> locks \ deletedLocks]

\* MessageHandlerService.handleRequestLock: the frame it returns.  lockResult is
\* an object, so `if (lockResult)` takes its first branch.
handleRequestLock(message, lockResult, t) ==
  [BlankFrame EXCEPT !.type = "lock-acquired", !.vaultId = message.vaultId,
     !.filePath = message.filePath, !.deviceId = message.deviceId,
     !.timestamp = t + fileLockExpiration]

\* ----------------------------------------------------------------- gateway

\* The write-class message kinds of WebSocketGateway.routeMessage.
WriteTypes == {"file-change", "binary-file-change", "file-delete", "file-rename",
               "resolve-conflict", "chunk-upload-complete"}

\* The handler of a write-class frame, at time t.
writeHandler(message, t) ==
  CASE message.type = "file-change" -> handleFileChange(message, t)
    [] message.type = "binary-file-change" -> handleBinaryFileChange(message, t)
    [] message.type = "file-delete" -> handleFileDelete(message, t)
    [] message.type = "file-rename" -> handleFileRename(message, t)
    [] message.type = "resolve-conflict" -> handleResolveConflict(message, t)
    [] OTHER -> handleChunkUploadComplete(message, t)

\* this.writeOpQueue, the promise enqueueWriteOperation chains the next task on
QueueTail == writeOpQueue

\* A queue promise that is fulfilled from the start.
PromiseAlwaysFulfilled(k) == TRUE

\* A queue promise that is fulfilled as soon as its task has started, as it is
\* when the callback does not await the task.
FulfilledOnceStarted(k) ==
  k = 0 \/ ~\E j \in tasks : j.id = k /\ j.st = "queued"

\* A queue promise that stays rejected when its task was rejected, as it does
\* without the catch.
FulfilledUnlessRejected(k) ==
  k = 0 \/ (k \notin rejected /\ \E i \in 1..Len(settled) : settled[i] = k)

\* run.catch(() => {}): the queue promise of task k is fulfilled once k has
\* settled, fulfilled or rejected (0 is the initial Promise.resolve())
QueuePromiseFulfilled(k) ==
  k = 0 \/ \E i \in 1..Len(settled) : settled[i] = k

Quiet ==
  /\ sent' = NothingSent
  /\ handled' = NoHandled

\* WebSocketGateway.enqueueWriteOperation: the task is chained on the queue
enqueueWriteOperation(ws, message) ==
  /\ nextTaskId <= MaxTasks
  /\ tasks' = tasks \cup {[id |-> nextTaskId, ws |-> ws, message |-> message,
                           after |-> QueueTail, st |-> "queued"]}
  /\ writeOpQueue' = nextTaskId
  /\ nextTaskId' = nextTaskId + 1

\* WebSocketGateway.routeMessage on a write-class frame: enqueueWriteOperation
Enqueue(ws, message) ==
  /\ readyState[ws] = "OPEN"
  /\ message.type \in WriteTypes
  /\ enqueueWriteOperation(ws, message)
  /\ Quiet
  /\ UNCHANGED <<now, pureVars, healthVars, dbVars, ioVars, connVars, chunkVars, settled, rejected>>

\* The callback of writeOpQueue.then runs: the task's handler starts.
StartTask(k) ==
  /\ k.st = "queued"
  /\ QueuePromiseFulfilled(k.after)
  /\ tasks' = (tasks \ {k}) \cup {[k EXCEPT !.st = "running"]}
  /\ Quiet
  /\ UNCHANGED <<now, pureVars, healthVars, dbVars, ioVars, connVars, chunkVars, writeOpQueue,
                 nextTaskId, settled, rejected>>

\* What the end of a task's handler, with outcome h, leaves.
Settle(k, h) ==
  /\ files' = h.tx.files
  /\ locks' = h.tx.locks
  /\ nextFileId' = h.tx.nextFileId
  /\ pendingIO' = pendingIO \cup
       {[task |-> k.id, op |-> o.op, vaultId |-> o.vaultId, path |-> o.path,
         newPath |-> o.newPath, content |-> o.content] : o \in h.tx.io}
  /\ storage' = h.storage
  /\ chunkSessions' = h.sessions
  /\ sent' = IF h.error # "none"
             THEN Sends(k.ws, {ErrorFrame(h.error)}, {}, {})
             ELSE Sends(k.ws, h.response,
                        broadcastToVault(k.message.vaultId, k.message.deviceId),
                        h.broadcast)
  /\ handled' = [type |-> k.message.type, ws |-> k.ws, task |-> k.id,
                 message |-> k.message, error |-> h.error,
                 existing |-> findFirst(k.message.vaultId, k.message.filePath),
                 result |-> h.tx.result, io |-> h.tx.io,
                 sessions |-> chunkSessions, syncOp |-> h.tx.syncOp,
                 recorded |-> h.recorded]
  /\ tasks' = tasks \ {k}
  /\ settled' = Append(settled, k.id)
  /\ UNCHANGED <<now, pureVars, devices, nextLockId, connVars, chunkState,
                 writeOpQueue, nextTaskId, rejected>>

\* The task's handler runs to its end and the task's promise is fulfilled.
FinishTask(k) ==
  /\ k.st = "running"
  /\ \E h \in {writeHandler(k.message, now)} : Settle(k, h)
  /\ UNCHANGED healthVars

\* The task's handler throws out of its own catch block (the send of the error
\* frame fails): the task's promise is rejected.
FailTask(k) ==
  /\ k.st = "running"
  /\ tasks' = tasks \ {k}
  /\ settled' = Append(settled, k.id)
  /\ rejected' = rejected \cup {k.id}
  /\ Quiet
  /\ UNCHANGED <<now, pureVars, healthVars, dbVars, ioVars, connVars, chunkVars, writeOpQueue,
                 nextTaskId>>

\* StorageService writeFile / deleteFile / renameFile finishes.
FinishIO(o) ==
  /\ pendingIO' = pendingIO \ {o}
  /\ storage' =
       CASE o.op = "write" -> [storage EXCEPT ![<<o.vaultId, o.path>>] = <<o.content>>]
         [] o.op = "delete" -> [storage EXCEPT ![<<o.vaultId, o.path>>] = << >>]
         [] OTHER ->
              IF storage[<<o.vaultId, o.path>>] = << >> THEN storage
              ELSE [storage EXCEPT ![<<o.vaultId, o.newPath>>] = storage[<<o.vaultId, o.path>>],
                                   ![<<o.vaultId, o.path>>] = << >>]
  /\ Quiet
  /\ UNCHANGED <<now, pureVars, healthVars, dbVars, connVars, chunkVars, queueVars>>

\* WebSocketGateway.handleRegisterDevice once the Metadata Store has answered:
\* the Device row is upserted, the socket is registered with the connection
\* manager (which closes the socket the device was registered on before; that
\* socket's 'close' event clears its heartbeat timer), the response is sent.
registerDevice(ws, vaultId, deviceId) ==
  /\ devices' = devices \cup {deviceId}
  /\ LET existingWs == clientsByDeviceId[deviceId]
         replaced == existingWs # << >> /\ existingWs[1] # ws
         removed == IF replaced
                    THEN removeClientTables(existingWs[1], clients, clientsByDeviceId)
                    ELSE [clients |-> clients, byDevice |-> clientsByDeviceId]
     IN  /\ clients' = [removed.clients EXCEPT
                          ![ws] = <<[vaultId |-> vaultId, deviceId |-> deviceId,
                                     lastSeen |-> now, rateLimitInfo |-> << >>]>>]
         /\ clientsByDeviceId' = [removed.byDevice EXCEPT ![deviceId] = <<ws>>]
         /\ readyState' = IF replaced
                          THEN [readyState EXCEPT ![existingWs[1]] = "CLOSED"]
                          ELSE readyState
         /\ health' = IF replaced
                      THEN [health EXCEPT ![existingWs[1]].heartbeat = << >>]
                      ELSE health
  /\ sent' = Sends(ws, {[BlankFrame EXCEPT !.type = "register-device-response",
                           !.vaultId = vaultId, !.deviceId = deviceId,
                           !.success = TRUE]}, {}, {})
  /\ handled' = [type |-> "register-device", ws |-> ws, vaultId |-> vaultId,
                 deviceId |-> deviceId, clients |-> clients]
  /\ UNCHANGED <<now, pureVars, pings, lockCalls, completions, pluginVars, files, nextFileId, locks, nextLockId, ioVars,
                 chunkVars, queueVars>>

\* A register-device frame whose handler runs without interruption.
RegisterDevice(ws, vaultId, deviceId) ==
  /\ readyState[ws] = "OPEN"
  /\ registerDevice(ws, vaultId, deviceId)
  /\ UNCHANGED inFlight

\* A register-device frame arrives: its handler starts and awaits the Metadata
\* Store (the vault and device upserts of MessageHandlerService).
BeginRegister(ws, vaultId, deviceId) ==
  /\ readyState[ws] = "OPEN"
  /\ Cardinality(inFlight) < MaxInFlight
  /\ inFlight' = inFlight \cup {[ws |-> ws, vaultId |-> vaultId, deviceId |-> deviceId,
                                 before |-> nextTaskId]}
  /\ Quiet
  /\ UNCHANGED <<now, pureVars, health, pings, lockCalls, completions, pluginVars, dbVars, ioVars, connVars, chunkVars,
                 queueVars>>

\* The Metadata Store answers: the handler of a register-device frame resumes.
FinishRegister(registration) ==
  /\ registration \in inFlight
  /\ inFlight' = inFlight \ {registration}
  /\ registerDevice(registration.ws, registration.vaultId, registration.deviceId)

\* The peer closes the socket, or the network drops it.
SocketClose(ws) ==
  /\ readyState[ws] = "OPEN"
  /\ readyState' = [readyState EXCEPT ![ws] = "CLOSED"]
  /\ Quiet
  /\ UNCHANGED <<now, pureVars, healthVars, dbVars, ioVars, clients, clientsByDeviceId,
                 chunkVars, queueVars>>

\* WebSocketGateway.handleDisconnection: the connection tables without ws, and
\* the device-offline frames for the rest of the vault when ws was registered
handleDisconnection(ws) ==
  LET removed == removeClientTables(ws, clients, clientsByDeviceId)
  IN  [clients |-> removed.clients, byDevice |-> removed.byDevice,
       deviceId |-> IF clients[ws] = << >> THEN "" ELSE clients[ws][1].deviceId,
       sent |-> IF clients[ws] = << >> THEN NothingSent
                ELSE LET info == clients[ws][1]
                     IN  [c \in Conns |->
                            IF /\ removed.clients[c] # << >>
                               /\ removed.clients[c][1].vaultId = info.vaultId
                               /\ removed.clients[c][1].deviceId # info.deviceId
                               /\ CanSend(c)
                            THEN {[BlankFrame EXCEPT !.type = "device-offline",
                                     !.deviceId = info.deviceId, !.timestamp = now]}
                            ELSE {}]]

\* The 'close' event of a socket: handleDisconnection clears the heartbeat timer
\* (ws.cleanup), removes the socket from the tables and tells the vault.
HandleDisconnection(ws) ==
  /\ readyState[ws] = "CLOSED"
  /\ health[ws].heartbeat # << >>
  /\ LET disconnection == handleDisconnection(ws)
     IN  /\ clients' = disconnection.clients
         /\ clientsByDeviceId' = disconnection.byDevice
         /\ sent' = disconnection.sent
         /\ handled' = [type |-> "disconnect", ws |-> ws,
                        deviceId |-> disconnection.deviceId]
  /\ health' = [health EXCEPT ![ws].heartbeat = << >>]
  /\ UNCHANGED <<now, pureVars, inFlight, pings, lockCalls, completions, pluginVars, dbVars, ioVars, readyState, chunkVars,
                 queueVars>>

\* WebSocketGateway.handleRequestLock: runs when the frame arrives, not on the
\* write queue.
RequestLock(ws, message) ==
  /\ readyState[ws] = "OPEN"
  /\ message.type = "request-lock"
  /\ nextLockId <= MaxLocks
  /\ LET lockResult == requestFileLock(message.vaultId, message.filePath,
                                       message.deviceId, now)
     IN  /\ locks' = lockResult.locks
         /\ nextLockId' = lockResult.nextLockId
         /\ sent' = Sends(ws, {handleRequestLock(message, lockResult, now)}, {}, {})
         /\ handled' = [type |-> "request-lock", ws |-> ws, message |-> message,
                        error |-> "none", held |-> locks,
                        existing |-> findFirst(message.vaultId, message.filePath),
                        result |-> [success |-> lockResult.success,
                                    expiresAt |-> lockResult.expiresAt]]
  /\ UNCHANGED <<now, pureVars, healthVars, devices, files, nextFileId, ioVars, connVars,
                 chunkVars, queueVars>>

\* SyncService.releaseFileLock, called with or without a device id
ReleaseLock(vaultId, filePath, deviceId) ==
  /\ LET releaseResult == releaseFileLock(vaultId, filePath, deviceId)
     IN  /\ locks' = releaseResult.locks
         /\ handled' = [type |-> "release-lock", vaultId |-> vaultId,
                        filePath |-> filePath, deviceId |-> deviceId, held |-> locks,
                        existing |-> findFirst(vaultId, filePath),
                        result |-> [success |-> releaseResult.released]]
  /\ sent' = NothingSent
  /\ UNCHANGED <<now, pureVars, healthVars, devices, files, nextFileId, nextLockId, ioVars,
                 connVars, chunkVars, queueVars>>

\* WebSocketGateway.handleChunkUploadStart
handleChunkUploadStart(ws, message) ==
  /\ readyState[ws] = "OPEN"
  /\ message.type = "chunk-upload-start"
  /\ LET sessionId == buildSessionId(message.vaultId, message.deviceId,
                                     message.filePath)
         invalid == message.hash = << >> \/ ~TruthyNum(message.fileSize)
                      \/ message.filePath = "" \/ message.vaultId = ""
                      \/ message.deviceId = "" \/ message.totalChunks = 0
     IN  /\ chunkSessions' =
              IF invalid THEN chunkSessions
              ELSE createSession(cancelSession(chunkSessions, sessionId), sessionId,
                     message.vaultId, message.filePath, message.hash,
                     message.fileSize[1], message.totalChunks, message.deviceId, now)
         /\ sent' = Sends(ws, {ChunkResponse(message.filePath, ~invalid, -1)}, {}, {})
         /\ handled' = [type |-> "chunk-upload-start", ws |-> ws, message |-> message,
                        invalid |-> invalid, sessionId |-> sessionId,
                        sessions |-> chunkSessions]
  /\ UNCHANGED <<now, pureVars, dbVars, ioVars, connVars, chunkState, queueVars>>

\* A frame of the kind arrives on ws and is handled.
ChunkUploadStart(ws, message) ==
  /\ handleChunkUploadStart(ws, message)
  /\ UNCHANGED healthVars

\* WebSocketGateway.handleChunkData: the metadata of the chunk to come
handleChunkData(ws, message) ==
  /\ readyState[ws] = "OPEN"
  /\ message.type = "chunk-data"
  /\ LET sessionId == buildSessionId(message.vaultId, message.deviceId,
                                     message.filePath)
         session == chunkSessions[sessionId]
     IN  /\ chunkState' = IF session = << >> THEN chunkState
                          ELSE [chunkState EXCEPT ![ws] = <<message>>]
         /\ sent' = Sends(ws, {ChunkResponse(message.filePath, session # << >>,
                                             message.chunkIndex)}, {}, {})
  /\ handled' = NoHandled
  /\ UNCHANGED <<now, pureVars, dbVars, ioVars, connVars, chunkSessions, queueVars>>

\* A frame of the kind arrives on ws and is handled.
ChunkData(ws, message) ==
  /\ handleChunkData(ws, message)
  /\ UNCHANGED healthVars

\* WebSocketGateway.handleBinaryChunkData: a binary frame arrives while the
\* socket waits for one
handleBinaryChunkData(ws, data) ==
  /\ readyState[ws] = "OPEN"
  /\ chunkState[ws] # << >>
  /\ LET metadata == chunkState[ws][1]
         sessionId == buildSessionId(metadata.vaultId, metadata.deviceId,
                                     metadata.filePath)
         storeResult == storeChunk(chunkSessions, sessionId, metadata.chunkIndex,
                                   data, metadata.chunkHash, now)
         mismatch == Len(data) # metadata.chunkSize
     IN  /\ chunkSessions' = IF mismatch THEN chunkSessions ELSE storeResult.sessions
         /\ sent' = Sends(ws, {ChunkResponse(metadata.filePath,
                                 ~mismatch /\ storeResult.success,
                                 metadata.chunkIndex)}, {}, {})
         /\ handled' = [type |-> "binary-chunk", ws |-> ws, metadata |-> metadata,
                        data |-> data, sessionId |-> sessionId,
                        sessions |-> chunkSessions]
  /\ chunkState' = [chunkState EXCEPT ![ws] = << >>]
  /\ UNCHANGED <<now, pureVars, dbVars, ioVars, connVars, queueVars>>

\* A frame of the kind arrives on ws and is handled.
BinaryChunkData(ws, data) ==
  /\ handleBinaryChunkData(ws, data)
  /\ UNCHANGED healthVars

\* WebSocketGateway.checkRateLimit: request-sync and heartbeat are not counted
gatewayCheckRateLimit(ws, message, t) ==
  IF message.type \in {"request-sync", "heartbeat"}
  THEN [allowed |-> TRUE, clients |-> clients]
  ELSE checkRateLimit(ws, t)

\* What handleMessage did with the frame.
MessageHandled(ws, message, outcome, error) ==
  [type |-> "message", ws |-> ws, message |-> message, outcome |-> outcome,
   error |-> error]

\* An error report that also closes the socket.
refuseAndTerminate(ws, message, outcome, code, cl) ==
  /\ clients' = cl
  /\ readyState' = [readyState EXCEPT ![ws] = "CLOSED"]
  /\ sent' = Sends(ws, {ErrorFrame(code)}, {}, {})
  /\ handled' = MessageHandled(ws, message, outcome, code)
  /\ UNCHANGED <<now, pureVars, healthVars, dbVars, ioVars, clientsByDeviceId, chunkVars, queueVars>>

\* errorHandler.sendErrorToClient and return: the frame is not routed.
refuseMessage(ws, message, outcome, code, cl) ==
  /\ clients' = cl
  /\ sent' = Sends(ws, {ErrorFrame(code)}, {}, {})
  /\ handled' = MessageHandled(ws, message, outcome, code)
  /\ UNCHANGED <<now, pureVars, healthVars, dbVars, ioVars, clientsByDeviceId, readyState,
                 chunkVars, queueVars>>

\* WebSocketGateway.handleMessage on a text frame that parses, while the socket
\* waits for no binary chunk: validateMessage, checkRateLimit, routeMessage.
\* Frames of the kinds request-lock, chunk-upload-start and chunk-data are the
\* actions above.
HandleMessage(ws, message) ==
  /\ readyState[ws] = "OPEN"
  /\ chunkState[ws] = << >>
  /\ message.type \notin {"request-lock", "request-sync", "chunk-upload-start", "chunk-data"}
  /\ LET check == gatewayCheckRateLimit(ws, message, now)
         active(cl) == updateClientActivity(ws, cl, now)
     IN  IF message.type = ""
         THEN refuseMessage(ws, message, "invalid", "INVALID_MESSAGE_FORMAT", active(clients))
         ELSE IF ~check.allowed
         THEN refuseMessage(ws, message, "refused", "RATE_LIMIT_EXCEEDED", active(check.clients))
         ELSE IF message.type \in WriteTypes
         THEN /\ enqueueWriteOperation(ws, message)
              /\ clients' = active(check.clients)
              /\ sent' = NothingSent
              /\ handled' = MessageHandled(ws, message, "routed", "none")
              /\ UNCHANGED <<now, pureVars, healthVars, dbVars, ioVars, clientsByDeviceId,
                             readyState, chunkVars, settled, rejected>>
         ELSE IF message.type = "heartbeat"
         THEN /\ clients' = active(check.clients)
              /\ sent' = Sends(ws, {[BlankFrame EXCEPT !.type = "heartbeat-response",
                                       !.timestamp = now]}, {}, {})
              /\ handled' = MessageHandled(ws, message, "routed", "none")
              /\ UNCHANGED <<now, pureVars, healthVars, dbVars, ioVars, clientsByDeviceId,
                             readyState, chunkVars, queueVars>>
         ELSE IF message.type = "register-device"
         THEN RegisterDevice(ws, message.vaultId, message.deviceId)
         \* the default case of routeMessage
         ELSE refuseMessage(ws, message, "unknown", "INVALID_MESSAGE_FORMAT",
                            active(check.clients))

\* WebSocketGateway.handleMessage on a text frame that does not parse: JSON.parse
\* throws, the catch block reports the error.
MalformedFrame(ws) ==
  /\ readyState[ws] = "OPEN"
  /\ chunkState[ws] = << >>
  /\ refuseMessage(ws, BlankMessage, "unparsable", "INTERNAL_SERVER_ERROR",
                   updateClientActivity(ws, clients, now))

\* Time passes.
Tick ==
  /\ now < MaxTime
  /\ now' = now + 1
  /\ Quiet
  /\ UNCHANGED <<pureVars, healthVars, dbVars, ioVars, connVars, chunkVars, queueVars>>

\* ------------------------------------------------------------ initial state

\* The server after construction: empty stores and tables, open sockets.
InitServer ==
  /\ devices = {}
  /\ files = {}
  /\ nextFileId = 1
  /\ locks = {}
  /\ nextLockId = 1
  /\ storage = [k \in Vaults \X Paths |-> << >>]
  /\ pendingIO = {}
  /\ clients = [c \in Conns |-> << >>]
  /\ clientsByDeviceId = [d \in Devices |-> << >>]
  /\ readyState = [c \in Conns |-> "OPEN"]
  /\ chunkSessions = [i \in SessionIds |-> << >>]
  /\ chunkState = [c \in Conns |-> << >>]
  /\ tasks = {}
  /\ writeOpQueue = 0
  /\ nextTaskId = 1
  /\ settled = << >>
  /\ rejected = {}
  /\ sent = [c \in Conns |-> {}]
  /\ handled = NoHandled
  /\ inFlight = {}
  /\ health = [c \in Conns |-> [isAlive |-> TRUE, heartbeat |-> <<heartbeatInterval>>]]
  /\ pings = {}
  /\ lockCalls = {}
  /\ completions = {}
  /\ activeUploads = [p \in Paths |-> << >>]
  /\ chunkTimers = {}
  /\ completed = << >>
  /\ outbox = << >>
  /\ inbox = << >>

\* ------------------------------------------------- conflict resolver, alone

InitResolve ==
  /\ now \in Times
  /\ conflictData \in ConflictInputs
  /\ resolution = NoResolution
  /\ InitServer

\* One call of resolveFileConflict on the drawn input.
Resolve ==
  /\ resolution = NoResolution
  /\ resolution' = resolveFileConflict(conflictData, now)
  /\ UNCHANGED <<now, conflictData, healthVars, dbVars, ioVars, connVars, chunkVars,
                 queueVars, obsVars>>

NextResolve == Resolve

SpecResolve == InitResolve /\ [][NextResolve]_vars


\* The decision order of the conflict resolver over the claimed time the caller
\* supplied: no record, accept(create); a prior hash different from the stored
\* hash, reject(hash_mismatch); equal content hash, update_mtime_only when the
\* claimed time is after the stored time and no_change otherwise; no prior hash
\* and a claimed time not after the stored time, reject(older_timestamp);
\* otherwise accept(full).
SpecifiedOutcome(data) ==
  IF data.existingFile = << >> THEN <<"accept", "none", "created">>
  ELSE LET stored == data.existingFile[1]
           claimed == data.clientTimestamp[1]
       IN  IF data.previousHash # << >> /\ data.previousHash[1] # stored.hash
           THEN <<"reject", "hash_mismatch", "none">>
           ELSE IF data.clientHash = stored.hash
           THEN IF claimed > stored.mtime
                THEN <<"update_mtime_only", "none", "mtime_only">>
                ELSE <<"no_change", "none", "no_change">>
           ELSE IF data.previousHash = << >> /\ claimed <= stored.mtime
           THEN <<"reject", "older_timestamp", "none">>
           ELSE <<"accept", "none", "full">>

\* C5: for every combination of record, prior hash, content hash and claimed
\* time, resolveFileConflict returns the outcome of the specified decision
\* order.
C5_DecisionOrder ==
  (resolution # NoResolution /\ conflictData.clientTimestamp # << >>)
    => <<resolution.action, resolution.conflictType, resolution.updated>>
         = SpecifiedOutcome(conflictData)

\* C5 for the claimed times the resolver takes as supplied (every time but 0).
C5_DecisionOrderNonZero ==
  (resolution # NoResolution /\ TruthyNum(conflictData.clientTimestamp))
    => <<resolution.action, resolution.conflictType, resolution.updated>>
         = SpecifiedOutcome(conflictData)

\* A claimed time of 0 equal to the stored time, with the stored content hash,
\* resolved after time 0.
C5_ZeroTimeResolved ==
  /\ resolution # NoResolution
  /\ conflictData.clientTimestamp = <<0>>
  /\ conflictData.existingFile # << >>
  /\ conflictData.existingFile[1].mtime = 0
  /\ conflictData.existingFile[1].hash = conflictData.clientHash
  /\ conflictData.previousHash = << >>
  /\ now > 0

\* ------------------------------------------------------------ the write queue

QueueConns == {"c1", "c2"}

\* One frame of each write-class kind, for file a.md of vault V1 from device A.
QueueFrame == [BlankMessage EXCEPT !.vaultId = "V1", !.deviceId = "A",
                                   !.filePath = "a.md"]

QueueMessages ==
  {[QueueFrame EXCEPT !.type = "file-change", !.content = <<1>>,
                      !.hash = calculateHash(<<1>>), !.timestamp = <<1>>],
   [QueueFrame EXCEPT !.type = "binary-file-change", !.content = toBase64(<<1>>),
                      !.hash = calculateHash(<<1>>), !.timestamp = <<1>>],
   [QueueFrame EXCEPT !.type = "file-delete"],
   [QueueFrame EXCEPT !.type = "file-rename", !.newPath = "b.md",
                      !.timestamp = <<1>>],
   [QueueFrame EXCEPT !.type = "resolve-conflict", !.resolution = "accept-server",
                      !.timestamp = <<1>>],
   [QueueFrame EXCEPT !.type = "chunk-upload-complete", !.timestamp = <<1>>]}

Init ==
  /\ now = 0
  /\ conflictData = << >>
  /\ resolution = NoResolution
  /\ InitServer

NextQueue ==
  \/ RegisterDevice("c1", "V1", "A")
  \/ \E ws \in QueueConns, m \in QueueMessages : Enqueue(ws, m)
  \/ \E k \in tasks : StartTask(k)
  \/ \E k \in tasks : FinishTask(k)
  \/ \E k \in tasks : FailTask(k)
  \/ \E o \in pendingIO : FinishIO(o)

SpecQueue == Init /\ [][NextQueue]_vars

Running == {k \in tasks : k.st = "running"}

Settled(id) == \E i \in 1..Len(settled) : settled[i] = id

\* C1: the handler of a later-enqueued write-class task never starts before
\* every earlier-enqueued task has settled, fulfilled or rejected, and the tasks
\* settle in the order they were enqueued.
C1_EnqueueOrder ==
  /\ \A k \in tasks : k.st = "running" => \A j \in 1..(k.id - 1) : Settled(j)
  /\ \A i \in 1..Len(settled) : settled[i] = i

\* Two tasks from different connections and a rejected one have settled, the
\* later one after the earlier.
C1_ThreeSettled ==
  /\ Len(settled) = MaxTasks
  /\ rejected # {}
  /\ rejected # 1..MaxTasks

\* C2: at every moment at most one task submitted through
\* enqueueWriteOperation is executing.
C2_OneExecuting == Cardinality(Running) <= 1

\* One task executes while two more, from another connection, wait.
C2_OneRunsOthersWait ==
  /\ Cardinality(Running) = 1
  /\ Cardinality({k \in tasks : k.st = "queued"}) >= 2
  /\ \E j, k \in tasks : j.ws # k.ws

\* ------------------------------------------------- one device's file writes

\* The frames device A sends for vault V1.
SyncFrame == [BlankMessage EXCEPT !.vaultId = "V1", !.deviceId = "A",
                                  !.filePath = "a.md"]

\* file-change frames with every content, claimed time and prior hash
FileChangeFrames ==
  {[SyncFrame EXCEPT !.type = "file-change", !.content = c,
                     !.hash = calculateHash(c), !.timestamp = <<t>>,
                     !.previousHash = ph] :
     c \in Contents, t \in Times, ph \in {<< >>, <<calculateHash(<<1>>)>>}}

NextChange ==
  \/ Tick
  \/ RegisterDevice("c1", "V1", "A")
  \/ \E m \in FileChangeFrames : Enqueue("c1", m)
  \/ \E k \in tasks : StartTask(k)
  \/ \E k \in tasks : FinishTask(k)
  \/ \E o \in pendingIO : FinishIO(o)

SpecChange == Init /\ [][NextChange]_vars

\* The last step ran the file-change handler to its response on a stored file.
ChangeHandled ==
  /\ handled.type = "file-change"
  /\ handled.error = "none"
  /\ handled.existing # << >>

\* C3: a file-change that carries a claimed prior hash different from the
\* stored hash is always rejected with hash_mismatch, whatever the claimed and
\* stored modification times are, and the FileRecord keeps its hash and version.
C3_StalePriorHashRejected ==
  (/\ ChangeHandled
   /\ handled.message.previousHash # << >>
   /\ handled.message.previousHash[1] # handled.existing[1].hash)
    => /\ ~handled.result.success
       /\ handled.result.conflictType = "hash_mismatch"
       /\ handled.existing[1] \in files

\* C4: when a file-change is rejected by conflict resolution, the response sent
\* to the originating connection reports the rejection rather than success, and
\* carries the FileRecord's current version and hash.
C4_RejectionReported ==
  (/\ ChangeHandled
   /\ handled.result.conflictType \in {"hash_mismatch", "older_timestamp"}
   /\ CanSend(handled.ws))
    => /\ sent[handled.ws] # {}
       /\ \A frame \in sent[handled.ws] :
            /\ ~frame.success
            /\ frame.version = handled.existing[1].version
            /\ frame.hash = handled.existing[1].hash

\* C7: for a write whose content hash equals the stored hash, a claimed time
\* not after the stored time gives no_change and leaves the FileRecord as it
\* was; a later claimed time gives update_mtime_only, which changes only the
\* modification time and the version; in both cases the stored hash and size
\* stay and nothing is written to the Content Store.
C7_SameContentFrame ==
  (/\ ChangeHandled
   /\ calculateHash(handled.message.content) = handled.existing[1].hash)
    => LET stored == handled.existing[1]
           claimed == handled.message.timestamp[1]
           after == findFirst(handled.message.vaultId, handled.message.filePath)
       IN  /\ handled.io = {}
           /\ after # << >>
           /\ after[1].hash = stored.hash
           /\ after[1].size = stored.size
           /\ IF claimed <= stored.mtime
              THEN handled.result.updated = "no_change" /\ after[1] = stored
              ELSE /\ handled.result.updated = "mtime_only"
                   /\ after[1] = [stored EXCEPT !.mtime = claimed,
                                                !.version = after[1].version]

\* --------------------------------------------- every kind of file mutation

UploadChunk == <<2, 2>>

VersionMessages ==
  {[SyncFrame EXCEPT !.type = "file-change", !.content = c,
                     !.hash = calculateHash(c), !.timestamp = <<t>>] :
     c \in Contents, t \in {1, 2}} \cup
  {[SyncFrame EXCEPT !.type = "file-rename", !.newPath = "b.md", !.timestamp = <<1>>],
   [SyncFrame EXCEPT !.type = "file-rename", !.filePath = "b.md", !.newPath = "a.md",
                     !.timestamp = <<1>>],
   [SyncFrame EXCEPT !.type = "file-delete"],
   [SyncFrame EXCEPT !.type = "resolve-conflict", !.resolution = "accept-client",
                     !.content = <<1>>, !.hash = calculateHash(<<1>>),
                     !.timestamp = <<2>>],
   [SyncFrame EXCEPT !.type = "chunk-upload-complete", !.timestamp = <<2>>]}

ChunkStartFrame ==
  [SyncFrame EXCEPT !.type = "chunk-upload-start", !.hash = calculateHash(UploadChunk),
                    !.fileSize = <<Len(UploadChunk)>>, !.totalChunks = 1]

ChunkDataFrame ==
  [SyncFrame EXCEPT !.type = "chunk-data", !.chunkIndex = 0,
                    !.chunkHash = calculateHash(UploadChunk),
                    !.chunkSize = Len(UploadChunk)]

NextVersion ==
  \/ Tick
  \/ RegisterDevice("c1", "V1", "A")
  \/ \E m \in VersionMessages : Enqueue("c1", m)
  \/ \E k \in tasks : StartTask(k)
  \/ \E k \in tasks : FinishTask(k)
  \/ \E o \in pendingIO : FinishIO(o)
  \/ tasks = {} /\ ChunkUploadStart("c1", ChunkStartFrame)
  \/ tasks = {} /\ ChunkData("c1", ChunkDataFrame)
  \/ tasks = {} /\ BinaryChunkData("c1", UploadChunk)

SpecVersion == Init /\ [][NextVersion]_vars

\* The FileRecord the last handled frame wrote or would have written.
HandledPath ==
  IF handled.type = "file-rename" THEN handled.message.newPath
  ELSE handled.message.filePath

\* The last step's handler changed a stored FileRecord: a full update, a
\* metadata-only update, a rename or the completion of a chunked upload.
AcceptedMutation ==
  /\ handled.type \in WriteTypes
  /\ handled.existing # << >>
  /\ handled.result.error = "none"
  /\ handled.result.success
  /\ \/ handled.result.updated \in {"full", "mtime_only"}
     \/ handled.type = "file-rename"

\* The last step's handler rejected the write or found nothing to do.
RejectedOrNoOp ==
  /\ handled.type \in WriteTypes
  /\ handled.existing # << >>
  /\ \/ handled.result.error # "none"
     \/ ~handled.result.success
     \/ handled.result.updated = "no_change"

\* C6: the first accepted write for a path creates its FileRecord with version
\* 1; every later accepted mutation (full update, metadata-only update, rename,
\* chunked-upload completion) makes the version strictly greater; rejected and
\* no-op writes leave the FileRecord's version as it was; an accepted update of
\* a version-1 record leaves version 2 and the hash of the second write.
C6_VersionGrows ==
  LET after == findFirst(handled.message.vaultId, HandledPath)
  IN  /\ (/\ handled.type \in WriteTypes
          /\ handled.existing = << >>
          /\ handled.result.updated = "created")
            => after # << >> /\ after[1].version = 1
      /\ AcceptedMutation
            => /\ after # << >>
               /\ after[1].id = handled.existing[1].id
               /\ after[1].version > handled.existing[1].version
      /\ (/\ AcceptedMutation
          /\ handled.type = "file-change"
          /\ handled.result.updated = "full"
          /\ handled.existing[1].version = 1)
            => /\ after[1].version = 2
               /\ after[1].hash = calculateHash(handled.message.content)
      /\ RejectedOrNoOp => handled.existing[1] \in files

\* A created record, updated once and then renamed, is at version 3.
C6_CreateUpdateRename ==
  /\ AcceptedMutation
  /\ handled.type = "file-rename"
  /\ \E f \in files : f.path = "b.md" /\ f.version = 3

\* ------------------------------------------------------------- broadcasting

\* The file-change frame device B sends for vault V1.
BroadcastMessages ==
  {[BlankMessage EXCEPT !.type = "file-change", !.vaultId = "V1", !.deviceId = "B",
      !.filePath = "a.md", !.content = <<1>>, !.hash = calculateHash(<<1>>),
      !.timestamp = <<1>>]}

\* The vault and device a connection registers with.
Bindings == {<<"V1", "A">>, <<"V1", "B">>, <<"V2", "C">>}

NextBroadcast ==
  \/ \E ws \in Conns, b \in Bindings : RegisterDevice(ws, b[1], b[2])
  \/ \E ws \in Conns : SocketClose(ws)
  \/ \E ws \in Conns : HandleDisconnection(ws)
  \/ \E ws \in Conns, m \in BroadcastMessages : Enqueue(ws, m)
  \/ \E k \in tasks : StartTask(k)
  \/ \E k \in tasks : FinishTask(k)

SpecBroadcast == Init /\ [][NextBroadcast]_vars

\* The last step accepted a file-change.
ChangeAccepted ==
  /\ handled.type = "file-change"
  /\ handled.error = "none"
  /\ handled.result.success
  /\ handled.result.updated \in {"created", "full", "mtime_only"}

\* The connections registered to vault T, open, and bound to a device other
\* than B.
OtherOpenConnections(T, B) ==
  {c \in Conns : /\ clients[c] # << >>
                 /\ clients[c][1].vaultId = T
                 /\ clients[c][1].deviceId # B
                 /\ readyState[c] = "OPEN"}

Delivered(c) == \E frame \in sent[c] : frame.type = "file-change"

\* C8: an accepted file-change sent by device B for tree T is delivered to
\* every connection that is registered to T, open, and bound to a device other
\* than B, and neither to a connection bound to B nor to a connection
\* registered to a different tree.
C8_BroadcastRecipients ==
  ChangeAccepted
    => \A c \in Conns :
         Delivered(c) <=> c \in OtherOpenConnections(handled.message.vaultId,
                                                     handled.message.deviceId)

\* An accepted change reaches one connection of the tree while the sender's own
\* connection and a connection of another tree are registered and open.
C8_OneReceivesTwoDoNot ==
  /\ ChangeAccepted
  /\ \E c \in Conns : Delivered(c)
  /\ \E c \in Conns : /\ clients[c] # << >>
                      /\ clients[c][1].deviceId = handled.message.deviceId
                      /\ clients[c][1].vaultId = handled.message.vaultId
                      /\ readyState[c] = "OPEN"
  /\ \E c \in Conns : /\ clients[c] # << >>
                      /\ clients[c][1].vaultId # handled.message.vaultId
                      /\ clients[c][1].deviceId # handled.message.deviceId
                      /\ readyState[c] = "OPEN"

\* --------------------------------------------------------------- file locks

LockFrame == [BlankMessage EXCEPT !.vaultId = "V1", !.filePath = "a.md"]

LockMessages ==
  {[LockFrame EXCEPT !.type = "request-lock", !.deviceId = d] : d \in {"A", "B"}}

LockFileMessages ==
  {[LockFrame EXCEPT !.type = "file-change", !.deviceId = "A", !.content = <<1>>,
                     !.hash = calculateHash(<<1>>), !.timestamp = <<1>>]}

NextLock ==
  \/ Tick
  \/ RegisterDevice("c1", "V1", "A")
  \/ RegisterDevice("c2", "V1", "B")
  \/ \E m \in LockFileMessages : Enqueue("c1", m)
  \/ \E k \in tasks : StartTask(k)
  \/ \E k \in tasks : FinishTask(k)
  \/ \E ws \in {"c1", "c2"}, m \in LockMessages : RequestLock(ws, m)

SpecLock == Init /\ [][NextLock]_vars

\* The lock rows of the requested file before the last step's lock request.
HeldBefore ==
  {l \in handled.held : handled.existing # << >> /\ l.fileId = handled.existing[1].id}

\* C9: at most one device holds a non-expired lock on a file: while D1 holds a
\* non-expired lock, an acquire for the file by another device D2 fails and
\* leaves the lock row (owner, acquired time, expiry) as it was, and a file
\* never has more than one lock row.
C9_ExclusiveLock ==
  /\ \A l1, l2 \in locks : l1.fileId = l2.fileId => l1 = l2
  /\ handled.type = "request-lock"
       => \A l \in HeldBefore :
            (l.expiresAt > now /\ l.deviceId # handled.message.deviceId)
              => ~handled.result.success /\ locks = handled.held

\* Device B asked for the file while device A held a non-expired lock on it.
C9_SecondDeviceDenied ==
  /\ handled.type = "request-lock"
  /\ handled.message.deviceId = "B"
  /\ \E l \in HeldBefore : l.expiresAt > now /\ l.deviceId = "A"

\* C10: a repeated acquire by the device that holds a non-expired lock on a
\* file always succeeds, keeps the same single lock row owned by that device,
\* and resets its expiry to the current time plus the lease duration.
C10_RenewByHolder ==
  handled.type = "request-lock"
    => \A l \in HeldBefore :
         (l.expiresAt > now /\ l.deviceId = handled.message.deviceId)
           => /\ handled.result.success
              /\ handled.result.expiresAt = <<now + fileLockExpiration>>
              /\ locks = (handled.held \ {l})
                           \cup {[l EXCEPT !.expiresAt = now + fileLockExpiration,
                                           !.lockedAt = now]}

\* The holder asked again one tick after it acquired the lock.
C10_HolderAskedAgain ==
  /\ handled.type = "request-lock"
  /\ \E l \in HeldBefore : /\ l.expiresAt > now
                           /\ l.deviceId = handled.message.deviceId
                           /\ l.lockedAt < now

\* C11: a request-lock for a file on which another device holds a non-expired
\* lock is answered with a lock-denied frame carrying the existing lock's
\* expiry time, and never with a lock-acquired frame.
C11_DeniedFrame ==
  (/\ handled.type = "request-lock"
   /\ CanSend(handled.ws)
   /\ \E l \in HeldBefore : l.expiresAt > now /\ l.deviceId # handled.message.deviceId)
    => /\ sent[handled.ws] # {}
       /\ \A frame \in sent[handled.ws] :
            /\ frame.type = "lock-denied"
            /\ \E l \in HeldBefore : frame.timestamp = l.expiresAt

\* ---------------------------------------------------- locks and disconnection

\* Each device asks for the lock on its own connection.
NextRelease ==
  \/ Tick
  \/ RegisterDevice("c1", "V1", "A")
  \/ RegisterDevice("c2", "V1", "B")
  \/ \E m \in LockFileMessages : Enqueue("c1", m)
  \/ \E k \in tasks : StartTask(k)
  \/ \E k \in tasks : FinishTask(k)
  \/ RequestLock("c1", [LockFrame EXCEPT !.type = "request-lock", !.deviceId = "A"])
  \/ RequestLock("c2", [LockFrame EXCEPT !.type = "request-lock", !.deviceId = "B"])
  \/ \E ws \in {"c1", "c2"} : SocketClose(ws)
  \/ \E ws \in {"c1", "c2"} : HandleDisconnection(ws)

SpecRelease == Init /\ [][NextRelease]_vars

\* C12: when a device's connection has closed and the disconnection has been
\* handled, no lock owned by that device remains, so that another device's
\* request for the same file succeeds before the lease would have expired.
C12_LocksReleasedOnClose ==
  /\ handled.type = "disconnect"
       => ~\E l \in locks : l.deviceId = handled.deviceId
  /\ (/\ handled.type = "request-lock"
      /\ handled.message.deviceId = "B"
      /\ {"A", "B"} \subseteq devices
      /\ clientsByDeviceId["A"] = << >>
      /\ \E l \in HeldBefore : l.deviceId = "A" /\ l.expiresAt > now)
       => handled.result.success

\* ------------------------------------------------------------ chunked upload

ChunkPayloads == {<<1>>, <<2>>}

ChunkFrame == [BlankMessage EXCEPT !.vaultId = "V1", !.deviceId = "A", !.filePath = "a.md"]

\* chunk-upload-start frames: two chunks of one byte each, with the right and
\* with a wrong total size.
ChunkStartFrames ==
  {[ChunkFrame EXCEPT !.type = "chunk-upload-start", !.hash = calculateHash(<<1, 2>>),
                      !.fileSize = <<n>>, !.totalChunks = 2] : n \in {1, 2}}

ChunkDataFrames ==
  {[ChunkFrame EXCEPT !.type = "chunk-data", !.chunkIndex = i,
                      !.chunkHash = calculateHash(c), !.chunkSize = Len(c)] :
     i \in ChunkIndexes, c \in ChunkPayloads}

ChunkCompleteFrame ==
  [ChunkFrame EXCEPT !.type = "chunk-upload-complete", !.timestamp = <<1>>]

\* The client sends chunk-upload-complete once its previous one was answered.

NextChunk ==
  \/ Tick
  \/ RegisterDevice("c1", "V1", "A")
  \/ \E m \in ChunkStartFrames : ChunkUploadStart("c1", m)
  \/ \E m \in ChunkDataFrames : ChunkData("c1", m)
  \/ \E data \in ChunkPayloads : BinaryChunkData("c1", data)
  \/ tasks = {} /\ Enqueue("c1", ChunkCompleteFrame)
  \/ \E k \in tasks : StartTask(k)
  \/ \E k \in tasks : FinishTask(k)

SpecChunk == Init /\ [][NextChunk]_vars

\* The session the last step's frame names, as it was before the step.
SessionBefore == handled.sessions[buildSessionId("V1", "A", "a.md")]

\* The indices of 0 .. totalChunks-1 for which the session holds no chunk.
MissingBefore ==
  {i \in 0..(SessionBefore[1].totalChunks - 1) :
     ~\E j \in 1..Len(SessionBefore[1].receivedChunks) :
        SessionBefore[1].receivedChunks[j].key = i}

\* The chunks from index i to index n-1, joined in index order.
RECURSIVE InIndexOrder(_, _, _)
InIndexOrder(map, i, n) ==
  IF i >= n THEN << >> ELSE MapGet(map, i) \o InIndexOrder(map, i + 1, n)

\* The session holds every chunk, and joined in index order they have the
\* declared total size and total hash.
Assembles ==
  /\ SessionBefore # << >>
  /\ MissingBefore = {}
  /\ LET whole == InIndexOrder(SessionBefore[1].receivedChunks, 0,
                                SessionBefore[1].totalChunks)
     IN  /\ Len(whole) = SessionBefore[1].fileSize
         /\ calculateHash(whole) = SessionBefore[1].fileHash

C14_BadChunkLeavesSession ==
  (/\ handled.type = "binary-chunk"
   /\ calculateHash(handled.data) # handled.metadata.chunkHash)
    => /\ chunkSessions = handled.sessions
       /\ \A frame \in sent[handled.ws] : ~frame.success

\* A chunk with a wrong hash arrived for a session that already held a chunk,
\* after the session's last activity.
C14_BadChunkArrived ==
  /\ handled.type = "binary-chunk"
  /\ calculateHash(handled.data) # handled.metadata.chunkHash
  /\ Len(handled.data) = handled.metadata.chunkSize
  /\ SessionBefore # << >>
  /\ SessionBefore[1].receivedChunks # << >>
  /\ SessionBefore[1].lastActivity < now

\* C15: a chunk-upload-start for a key that already has a session replaces it
\* with a fresh session that holds no received chunk and has the declared
\* size, hash and chunk count; there is one session per key at most.
C15_StartReplacesSession ==
  (handled.type = "chunk-upload-start" /\ ~handled.invalid)
    => LET session == chunkSessions[handled.sessionId]
       IN  /\ session # << >>
           /\ session[1].receivedChunks = << >>
           /\ session[1].totalChunks = handled.message.totalChunks
           /\ session[1].fileHash = handled.message.hash
           /\ session[1].fileSize = handled.message.fileSize[1]
           /\ \A other \in SessionIds \ {handled.sessionId} :
                chunkSessions[other] = handled.sessions[other]

\* A session that held a chunk was started again.
C15_RestartedWithChunks ==
  /\ handled.type = "chunk-upload-start"
  /\ ~handled.invalid
  /\ SessionBefore # << >>
  /\ SessionBefore[1].receivedChunks # << >>

\* ------------------------------------------------------------- registration

\* Any connection registers as any device; sockets close and are cleaned up.
NextRegister ==
  \/ \E ws \in Conns, v \in Vaults, d \in Devices : RegisterDevice(ws, v, d)
  \/ \E ws \in Conns : SocketClose(ws)
  \/ \E ws \in Conns : HandleDisconnection(ws)

SpecRegister == Init /\ [][NextRegister]_vars

\* The connections other than the registering one that were bound to the
\* registered device id before the last step's registration.
BoundBefore ==
  {c \in Conns \ {handled.ws} :
     handled.clients[c] # << >> /\ handled.clients[c][1].deviceId = handled.deviceId}

\* C16: at most one registered connection is bound to a device id; registering
\* a second connection for a bound device id removes the older connection from
\* the connection table and closes it, and the device id then resolves to the
\* new connection.
C16_OneConnectionPerDevice ==
  /\ \A c, d \in Conns :
       (clients[c] # << >> /\ clients[d] # << >>
          /\ clients[c][1].deviceId = clients[d][1].deviceId) => c = d
  /\ handled.type = "register-device"
       => /\ clients[handled.ws] # << >>
          /\ clients[handled.ws][1].deviceId = handled.deviceId
          /\ clientsByDeviceId[handled.deviceId] = <<handled.ws>>
          /\ \A old \in BoundBefore :
               clients[old] = << >> /\ readyState[old] = "CLOSED"

\* A second connection registered for a device id bound to an open connection.
C16_SecondConnectionRegistered ==
  /\ handled.type = "register-device"
  /\ BoundBefore # {}

\* --------------------------------------------------------------- rate limit

\* The frames one connection sends: a write, a heartbeat, a registration.
RateMessages ==
  {[BlankMessage EXCEPT !.type = "file-change", !.vaultId = "V1", !.deviceId = "A",
      !.filePath = "a.md", !.content = <<1>>, !.hash = calculateHash(<<1>>)],
   [BlankMessage EXCEPT !.type = "heartbeat", !.deviceId = "A"],
   [BlankMessage EXCEPT !.type = "register-device", !.vaultId = "V1", !.deviceId = "A"]}

\* Each frame carries the time it was sent at.
NextRate ==
  \/ Tick
  \/ \E m \in RateMessages : HandleMessage("c1", [m EXCEPT !.timestamp = <<now>>])

SpecRate == Init /\ [][NextRate]_vars

\* The write-class frames of ws that were sent at time t and routed.
RoutedAt(ws, t) == {k \in tasks : k.ws = ws /\ k.message.timestamp = <<t>>}

\* C17: within one rate-limit window at most rateLimitMaxMessages messages of
\* one connection, other than request-sync and heartbeat, are routed (so no
\* more than that many of those sent at one instant); a further message is
\* answered with a rate-limit error and not processed; heartbeat is never
\* refused and does not consume the count.
C17_WindowLimit ==
  /\ \A ws \in Conns, t \in Times :
       Cardinality(RoutedAt(ws, t)) <= rateLimitMaxMessages
  /\ (handled.type = "message" /\ handled.outcome = "refused")
       => /\ handled.message.type # "heartbeat"
          /\ \A frame \in sent[handled.ws] : frame.code = "RATE_LIMIT_EXCEEDED"

\* C17, for what the code does: a message is refused only when the counter of
\* its registered connection has reached the limit, it is then answered with a
\* rate-limit error, the counter never passes the limit, and a heartbeat is
\* always answered.
C17_FullCounterRefuses ==
  /\ (handled.type = "message" /\ handled.outcome = "refused")
       => /\ handled.message.type # "heartbeat"
          /\ sent[handled.ws] = {ErrorFrame("RATE_LIMIT_EXCEEDED")}
          /\ clients[handled.ws][1].rateLimitInfo[1].messageCount >= rateLimitMaxMessages
  /\ (handled.type = "message" /\ handled.message.type = "heartbeat")
       => handled.outcome = "routed"
  /\ \A ws \in Conns :
       (clients[ws] # << >> /\ clients[ws][1].rateLimitInfo # << >>)
         => clients[ws][1].rateLimitInfo[1].messageCount <= rateLimitMaxMessages

\* A registered connection had a message refused.
C17_MessageRefused ==
  /\ handled.type = "message"
  /\ handled.outcome = "refused"
  /\ handled.message.type = "file-change"

\* ------------------------------------------------------------ client errors

ErrorFrameBase ==
  [BlankMessage EXCEPT !.vaultId = "V1", !.deviceId = "A", !.filePath = "a.md",
                       !.timestamp = <<1>>]

\* A registration, a heartbeat, a valid file-change, and the frames in error:
\* without a type, of an unknown type, with a wrong content hash, from a
\* device that never registered.
ErrorMessages ==
  {[ErrorFrameBase EXCEPT !.type = "register-device"],
   [ErrorFrameBase EXCEPT !.type = "heartbeat"],
   [ErrorFrameBase EXCEPT !.type = "file-change", !.content = <<1>>,
                          !.hash = calculateHash(<<1>>)],
   ErrorFrameBase,
   [ErrorFrameBase EXCEPT !.type = "no-such-type"],
   [ErrorFrameBase EXCEPT !.type = "file-change", !.content = <<1>>,
                          !.hash = calculateHash(<<2>>)],
   [ErrorFrameBase EXCEPT !.type = "file-change", !.deviceId = "B",
                          !.content = <<1>>, !.hash = calculateHash(<<1>>)]}

NextError ==
  \/ Tick
  \/ \E m \in ErrorMessages : HandleMessage("c1", m)
  \/ MalformedFrame("c1")
  \/ \E k \in tasks : StartTask(k)
  \/ \E k \in tasks : FinishTask(k)

SpecError == Init /\ [][NextError]_vars

\* The last step reported a client error to the connection handled.ws.
ClientErrorReported ==
  \/ handled.type = "message" /\ handled.error # "none"
  \/ handled.type \in WriteTypes /\ handled.error \in {"HASH_MISMATCH", "DEVICE_NOT_FOUND"}

\* The last step handled a file-change with the right content hash from a
\* registered device.
ValidChangeHandled ==
  /\ handled.type = "file-change"
  /\ handled.message.hash = calculateHash(handled.message.content)
  /\ handled.message.deviceId \in devices

\* C18: a client error (unparsable frame, frame without a type, unknown type,
\* rate-limit refusal, content-hash mismatch, unknown device) is reported to
\* the originating connection and does not terminate it: the connection stays
\* open and registered and the stored records stay as they were; a heartbeat
\* sent right after the error is answered, and a valid file-change is
\* processed without error.
C18_ClientErrorsNotFatal ==
  [][/\ ClientErrorReported'
        => /\ sent'[handled'.ws] = {ErrorFrame(handled'.error)}
           /\ readyState' = readyState
           /\ readyState'[handled'.ws] = "OPEN"
           /\ clientsByDeviceId' = clientsByDeviceId
           /\ \A c \in Conns : (clients'[c] = << >>) <=> (clients[c] = << >>)
           /\ UNCHANGED <<dbVars, chunkVars, storage>>
     /\ (/\ ClientErrorReported
         /\ handled'.type = "message"
         /\ handled'.ws = handled.ws
         /\ handled'.message.type = "heartbeat")
        => /\ handled'.outcome = "routed"
           /\ \E frame \in sent'[handled.ws] : frame.type = "heartbeat-response"
     /\ ValidChangeHandled' => handled'.error = "none"
    ]_vars

\* A valid file-change created the FileRecord after an earlier file-change on
\* the same connection had failed with a client error.
C18_ValidAfterError ==
  /\ handled.type = "file-change"
  /\ handled.error = "none"
  /\ handled.result.updated = "created"
  /\ handled.task > 1
  /\ clients[handled.ws] # << >>

\* ----------------------------------------------------- the queue's progress

\* The event loop runs the callback of a fulfilled queue promise, and a
\* handler that has started terminates, by returning or by throwing.
SpecQueueLive ==
  /\ SpecQueue
  /\ WF_vars(\E k \in tasks : StartTask(k))
  /\ WF_vars(\E k \in tasks : FinishTask(k) \/ FailTask(k))

\* C19: a failed task does not halt the queue: every enqueued task, those
\* enqueued after a failed task included, is eventually started, provided each
\* started handler terminates.
C19_EveryTaskStarts ==
  \A i \in 1..MaxTasks :
    (\E k \in tasks : k.id = i /\ k.st = "queued")
      ~> ((\E k \in tasks : k.id = i /\ k.st = "running") \/ Settled(i))

\* A task runs whose predecessor in the queue failed.
C19_RunsAfterFailure ==
  \E k \in tasks : k.st = "running" /\ (k.id - 1) \in rejected

\* ------------------------------------------------------------------ renames

RenameFrame == [BlankMessage EXCEPT !.vaultId = "V1", !.deviceId = "A",
                                    !.timestamp = <<1>>]

\* Device A creates a.md and b.md and renames one to the other.
RenameMessages ==
  {[RenameFrame EXCEPT !.type = "file-change", !.filePath = "a.md", !.content = <<1>>,
                       !.hash = calculateHash(<<1>>)],
   [RenameFrame EXCEPT !.type = "file-change", !.filePath = "b.md",
                       !.content = <<2, 2>>, !.hash = calculateHash(<<2, 2>>)],
   [RenameFrame EXCEPT !.type = "file-rename", !.filePath = "a.md", !.newPath = "b.md"],
   [RenameFrame EXCEPT !.type = "file-rename", !.filePath = "b.md", !.newPath = "a.md"],
   [RenameFrame EXCEPT !.type = "file-rename", !.filePath = "a.md", !.newPath = "a.md"]}

NextRename ==
  \/ Tick
  \/ RegisterDevice("c1", "V1", "A")
  \/ \E m \in RenameMessages : Enqueue("c1", m)
  \/ \E k \in tasks : StartTask(k)
  \/ \E k \in tasks : FinishTask(k)
  \/ \E o \in pendingIO : FinishIO(o)

SpecRename == Init /\ [][NextRename]_vars

\* The records of the vault at the path, before the step.
RecordsAt(vaultId, path) == {f \in files : f.vaultId = vaultId /\ f.path = path}

\* No two FileRecords of a vault have the same path.
UniquePaths ==
  \A f, g \in files : (f.vaultId = g.vaultId /\ f.path = g.path) => f = g

\* C20: an accepted file-rename moves the FileRecord to the new path, keeps its
\* content hash and size, increases its version by one and writes no content
\* to the Content Store; a rename whose source has no record or whose
\* destination has one is rejected and leaves every FileRecord as it was; no
\* two records of a vault ever share a path.
C20_RenameFrame ==
  /\ []UniquePaths
  /\ [][(handled'.type = "file-rename" /\ handled'.message.deviceId \in devices)
          => LET m == handled'.message
                 source == RecordsAt(m.vaultId, m.filePath)
                 target == RecordsAt(m.vaultId, m.newPath)
             IN  IF source # {} /\ target = {}
                 THEN /\ handled'.error = "none"
                      /\ \E f \in source, g \in files' :
                           /\ files' \ {g} = files \ {f}
                           /\ g.id = f.id /\ g.vaultId = f.vaultId
                           /\ g.path = m.newPath
                           /\ g.hash = f.hash /\ g.size = f.size
                           /\ g.version = f.version + 1
                      /\ storage' = storage
                      /\ \A o \in handled'.io : o.op = "rename"
                 ELSE /\ handled'.error # "none"
                      /\ files' = files
                      /\ storage' = storage
                      /\ handled'.io = {}
       ]_vars

\* A rename was accepted and moved the version-1 record to the new path.
C20_RenameAccepted ==
  /\ handled.type = "file-rename"
  /\ handled.error = "none"
  /\ \E f \in files : f.path = handled.message.newPath /\ f.version = 2
  /\ ~\E f \in files : f.path = handled.message.filePath

\* ------------------------------------------------------ deleting a locked file

DeleteMessages ==
  {[LockFrame EXCEPT !.type = "file-delete", !.deviceId = d] : d \in {"A", "B"}}

\* Device A creates a.md and locks it; both devices ask to delete it.
NextDelete ==
  \/ Tick
  \/ RegisterDevice("c1", "V1", "A")
  \/ RegisterDevice("c2", "V1", "B")
  \/ \E m \in LockFileMessages : Enqueue("c1", m)
  \/ \E ws \in {"c1", "c2"}, m \in DeleteMessages : Enqueue(ws, m)
  \/ \E k \in tasks : StartTask(k)
  \/ \E k \in tasks : FinishTask(k)
  \/ RequestLock("c1", [LockFrame EXCEPT !.type = "request-lock", !.deviceId = "A"])

SpecDelete == Init /\ [][NextDelete]_vars

\* C21: a file-delete for a path whose FileRecord has a non-expired lock held
\* by a device other than the requester is rejected with file_locked and leaves
\* the FileRecord and the lock; a file-delete for a path without a FileRecord
\* is accepted and changes nothing.
C21_LockedDeleteRejected ==
  [][(handled'.type = "file-delete" /\ handled'.message.deviceId \in devices)
       => LET m == handled'.message
              record == RecordsAt(m.vaultId, m.filePath)
          IN  /\ record = {}
                   => /\ handled'.error = "none"
                      /\ handled'.result.success
                      /\ files' = files /\ locks' = locks
              /\ \A f \in record :
                   (\E l \in locks : /\ l.fileId = f.id
                                      /\ l.expiresAt > now
                                      /\ l.deviceId # m.deviceId)
                     => /\ handled'.result.conflictType = "file_locked"
                        /\ files' = files /\ locks' = locks
    ]_vars

\* ------------------------------------------------------------ releasing a lock

\* The device ids a release is issued with: none, a registered device, and
\* device C, which has no Device row.
ReleaseRequesters == Opt({"A", "B", "C"})

NextUnlock ==
  \/ Tick
  \/ RegisterDevice("c1", "V1", "A")
  \/ RegisterDevice("c2", "V1", "B")
  \/ \E m \in LockFileMessages : Enqueue("c1", m)
  \/ \E k \in tasks : StartTask(k)
  \/ \E k \in tasks : FinishTask(k)
  \/ RequestLock("c1", [LockFrame EXCEPT !.type = "request-lock", !.deviceId = "A"])
  \/ RequestLock("c2", [LockFrame EXCEPT !.type = "request-lock", !.deviceId = "B"])
  \/ \E d \in ReleaseRequesters : ReleaseLock("V1", "a.md", d)

SpecUnlock == Init /\ [][NextUnlock]_vars

\* C22: a release issued with a requesting device id removes the lock on the
\* file only if that device owns it: whatever the requesting device id, a lock
\* owned by a different device is still there after the release.
C22_ReleaseOnlyOwn ==
  (handled.type = "release-lock" /\ handled.deviceId # << >>)
    => \A l \in HeldBefore : l.deviceId # handled.deviceId[1] => l \in locks

\* C22 for a requesting device that has a Device row: the release removes the
\* file's lock when the requester owns it and leaves it otherwise.
C22_RegisteredReleaseOnlyOwn ==
  (/\ handled.type = "release-lock"
   /\ handled.deviceId # << >>
   /\ handled.deviceId[1] \in devices)
    => /\ \A l \in HeldBefore : l.deviceId # handled.deviceId[1] => l \in locks
       /\ \A l \in HeldBefore : l.deviceId = handled.deviceId[1] => l \notin locks
       /\ handled.result.success <=> \E l \in HeldBefore : l.deviceId = handled.deviceId[1]

\* Registered device B asked to release the file that device A holds locked.
C22_OtherDeviceAsked ==
  /\ handled.type = "release-lock"
  /\ handled.deviceId = <<"B">>
  /\ "B" \in devices
  /\ \E l \in HeldBefore : l.deviceId = "A" /\ l.expiresAt > now

\* ------------------------------------------------------- the audit records

TerminalStatuses == {"applied", "conflicted", "failed"}

\* The last step ran a write handler whose transaction created its
\* SyncOperation row.
AuditedAttempt ==
  /\ handled.type \in {"file-change", "binary-file-change", "file-delete",
                       "file-rename", "resolve-conflict"}
  /\ handled.syncOp.statuses # << >>

\* No status written after a terminal status differs from it.
StatusKept(statuses) ==
  \A i, j \in 1..Len(statuses) :
    (i < j /\ statuses[i] \in TerminalStatuses) => statuses[j] = statuses[i]

\* C23: once the status of a SyncOperation record has been set to applied,
\* conflicted or failed it is never changed again, in the create/update, delete
\* and rename paths and for every outcome, rejected deletes and renames
\* included.
C23_TerminalStatusImmutable ==
  AuditedAttempt => StatusKept(handled.syncOp.statuses)

\* C23 for the attempts whose transaction returned a result: the status is set
\* once, to applied or to conflicted.
C23_ReturnedStatusSetOnce ==
  (AuditedAttempt /\ handled.result.error = "none")
    => /\ StatusKept(handled.syncOp.statuses)
       /\ Len(handled.syncOp.statuses) = 2

\* A rename was accepted and its record set to applied.
C23_RenameApplied ==
  /\ AuditedAttempt
  /\ handled.type = "file-rename"
  /\ handled.syncOp.statuses = <<"pending", "applied">>

\* C30: for every write-class attempt (create/update, delete, rename) the
\* SyncOperation record is created pending before the mutation, and when the
\* attempt has ended the record is in the Metadata Store with the terminal
\* status of the outcome: applied when accepted, conflicted when rejected.
C30_AuditFinalized ==
  AuditedAttempt
    => LET statuses == handled.syncOp.statuses
       IN  /\ statuses[1] = "pending"
           /\ handled.syncOp.committed
           /\ statuses[Len(statuses)] =
                IF handled.result.success THEN "applied" ELSE "conflicted"

\* C30 for the attempts whose transaction returned a result.
C30_ReturnedAuditFinalized ==
  (AuditedAttempt /\ handled.result.error = "none")
    => LET statuses == handled.syncOp.statuses
       IN  /\ statuses[1] = "pending"
           /\ handled.syncOp.committed
           /\ statuses[Len(statuses)] =
                IF handled.result.success THEN "applied" ELSE "conflicted"

\* A file-change was rejected by conflict resolution and its record committed
\* as conflicted.
C30_ChangeConflicted ==
  /\ AuditedAttempt
  /\ handled.type = "file-change"
  /\ ~handled.result.success
  /\ handled.syncOp = [statuses |-> <<"pending", "conflicted">>, committed |-> TRUE]

\* ------------------------------------------------- mutations and the queue

\* C24: every message that mutates FileRecord or lock state is executed as a
\* task of the write queue: a step that changes the File or FileLock rows is
\* the end of the one running task, so no two mutating operations are in
\* flight at the same time.
C24_MutationsQueued ==
  [][(files' # files \/ locks' # locks)
       => /\ handled'.type \in WriteTypes
          /\ Cardinality(Running) = 1
          /\ Running' = {}
    ]_vars

\* C24 for the File rows: every step that changes them is the end of the one
\* running task; the FileLock rows are changed by queue tasks and by
\* request-lock.
C24_FileMutationsQueued ==
  [][/\ files' # files
          => /\ handled'.type \in WriteTypes
             /\ Cardinality(Running) = 1
             /\ Running' = {}
     /\ locks' # locks => handled'.type \in WriteTypes \cup {"request-lock"}
    ]_vars

\* A request-lock created a lock row while a write task was running.
C24_LockedWhileTaskRuns ==
  /\ handled.type = "request-lock"
  /\ handled.result.success
  /\ locks # handled.held
  /\ Running # {}

\* ------------------------------------------------- completion and the session

\* The session's chunks joined in index order (every index is present).
WholeBefore ==
  InIndexOrder(SessionBefore[1].receivedChunks, 0, SessionBefore[1].totalChunks)

\* The last step completed an upload whose chunks were all present and had the
\* declared total size, but not the declared total hash.
HardMismatch ==
  /\ handled.type = "chunk-upload-complete"
  /\ SessionBefore # << >>
  /\ MissingBefore = {}
  /\ Len(WholeBefore) = SessionBefore[1].fileSize
  /\ calculateHash(WholeBefore) # SessionBefore[1].fileHash

\* C27: a completeUpload that fails because chunks are missing leaves the
\* session as it was; one that fails because the assembled blob does not have
\* the declared total hash destroys the session; a successful one hands the
\* verified blob to the Content Store and destroys the session.
C27_CompletionAndSession ==
  (handled.type = "chunk-upload-complete" /\ SessionBefore # << >>)
    => LET session == chunkSessions[buildSessionId("V1", "A", "a.md")]
       IN  /\ MissingBefore # {} => session = SessionBefore
           /\ HardMismatch => session = << >>
           /\ Assembles
                => /\ session = << >>
                   /\ storage[<<"V1", "a.md">>] = <<toBase64(WholeBefore)>>

\* C27 for what the code does: every failed completeUpload, the one failing on
\* the total hash included, leaves the session as it was; a successful one
\* stores the verified blob and destroys the session.
C27_FailureKeepsSession ==
  (handled.type = "chunk-upload-complete" /\ SessionBefore # << >>)
    => LET session == chunkSessions[buildSessionId("V1", "A", "a.md")]
       IN  IF Assembles
           THEN /\ session = << >>
                /\ storage[<<"V1", "a.md">>] = <<toBase64(WholeBefore)>>
           ELSE /\ session = SessionBefore
                /\ handled.result.updated = "incomplete"

\* A completion failed on the total hash with every chunk present.
C27_HashFailed ==
  /\ HardMismatch
  /\ handled.result.updated = "incomplete"

\* ------------------------------------------------- rejected renames, reported

\* The next step handles a file-rename of a registered device that conflict
\* resolution rejects: the source has no record or the target has one.
RenameRejectedNext ==
  /\ handled'.type = "file-rename"
  /\ handled'.message.deviceId \in devices
  /\ readyState[handled'.ws] = "OPEN"
  /\ \/ RecordsAt(handled'.message.vaultId, handled'.message.filePath) = {}
     \/ RecordsAt(handled'.message.vaultId, handled'.message.newPath) # {}

\* C29: a file-rename or file-delete rejected by conflict resolution
\* (source_not_found, target_exists, file_locked) is answered to the sender
\* with an ordinary response carrying the non-accept verdict and its reason
\* code, not with an error frame.
C29_RejectionIsResponse ==
  [][RenameRejectedNext
       => /\ sent'[handled'.ws] # {}
          /\ \A frame \in sent'[handled'.ws] :
               /\ frame.type # "error"
               /\ ~frame.success
               /\ frame.code \in {"source_not_found", "target_exists", "file_locked"}
    ]_vars

\* C29 for what the code does: the rejected rename is answered with the error
\* frame of an internal error and nothing else.
C29_RejectionIsErrorFrame ==
  [][RenameRejectedNext
       => sent'[handled'.ws] = {ErrorFrame("INTERNAL_SERVER_ERROR")}
    ]_vars

\* A rename onto an occupied path was rejected.
C29_TargetExistsRejected ==
  /\ handled.type = "file-rename"
  /\ handled.error # "none"
  /\ RecordsAt(handled.message.vaultId, handled.message.filePath) # {}
  /\ RecordsAt(handled.message.vaultId, handled.message.newPath) # {}
  /\ handled.message.filePath # handled.message.newPath

\* ------------------------------------------- one connection, frame after frame

\* Connection c1 sends register-device frames for device A and file-change
\* frames of device A, in any order.
NextArrival ==
  \/ BeginRegister("c1", "V1", "A")
  \/ \E registration \in inFlight : FinishRegister(registration)
  \/ \E m \in LockFileMessages : Enqueue("c1", m)
  \/ \E k \in tasks : StartTask(k)
  \/ \E k \in tasks : FinishTask(k)

SpecArrival == Init /\ [][NextArrival]_vars

\* C25: the handling of a frame is finished, or the frame is in the write queue,
\* before the handling of the next frame of the same connection begins (no
\* write of a connection is in the queue, or being applied, while the handler
\* of a register-device frame that arrived before it on that connection still
\* runs), and no write is applied before an earlier frame of its connection.
C25_OneFrameAtATime ==
  /\ \A registration \in inFlight : \A k \in tasks :
       k.ws = registration.ws => k.id < registration.before
  /\ handled.type \in WriteTypes
       => \A registration \in inFlight :
            handled.ws = registration.ws => handled.task < registration.before

\* A file-change of device A is refused with DEVICE_NOT_FOUND while the handler
\* of the register-device frame that arrived before it still runs.
C25_WriteOvertakesRegistration ==
  /\ handled.type = "file-change"
  /\ handled.error = "DEVICE_NOT_FOUND"
  /\ \E registration \in inFlight :
       /\ registration.ws = handled.ws
       /\ registration.deviceId = handled.message.deviceId
       /\ registration.before <= handled.task

\* What the code does for C25: among the writes of one connection the arrival
\* order is kept, a write is applied only when every earlier write of its
\* connection has settled.
C25_WritesInArrivalOrder ==
  handled.type \in WriteTypes
    => \A k \in tasks : k.ws = handled.ws => k.id > handled.task

\* ----------------------------------------------------- heartbeat and the sweep

\* A probe that lets every connection live.
missedPongIgnored(ws) == FALSE

\* if (!isAlive) of the heartbeat timer: no pong arrived since the last probe
missedPong(ws) == ~health[ws].isAlive

\* The heartbeat timer of a socket fires (the setInterval callback of
\* setupConnectionHealth): a socket that missed the pong is disconnected and
\* terminated, another one is marked and pinged.
Probe(ws) ==
  /\ health[ws].heartbeat = <<now>>
  /\ IF missedPong(ws)
     THEN LET disconnection == handleDisconnection(ws)
          IN  /\ clients' = disconnection.clients
              /\ clientsByDeviceId' = disconnection.byDevice
              /\ sent' = disconnection.sent
              /\ readyState' = [readyState EXCEPT ![ws] = "CLOSED"]
              /\ health' = [health EXCEPT ![ws].heartbeat = << >>]
              /\ pings' = pings \ {ws}
              /\ handled' = [type |-> "probe", ws |-> ws, terminated |-> TRUE,
                             deviceId |-> disconnection.deviceId]
     ELSE /\ health' = [health EXCEPT ![ws] = [isAlive |-> FALSE,
                                               heartbeat |-> <<now + heartbeatInterval>>]]
          /\ pings' = IF readyState[ws] = "OPEN" THEN pings \cup {ws} ELSE pings
          /\ sent' = NothingSent
          /\ handled' = [type |-> "probe", ws |-> ws, terminated |-> FALSE,
                         deviceId |-> ""]
          /\ UNCHANGED connVars
  /\ UNCHANGED <<now, pureVars, inFlight, lockCalls, completions, pluginVars, dbVars, ioVars, chunkVars, queueVars>>

\* A pong arrives: ws.on('pong')
Pong(ws) ==
  /\ readyState[ws] = "OPEN"
  /\ health' = [health EXCEPT ![ws].isAlive = TRUE]
  /\ pings' = pings \ {ws}
  /\ Quiet
  /\ UNCHANGED <<now, pureVars, inFlight, lockCalls, completions, pluginVars, dbVars, ioVars, connVars, chunkVars, queueVars>>

\* The socket's 'error' event: handleConnectionError clears the timer and calls
\* handleDisconnection; the socket is closed.
SocketError(ws) ==
  /\ readyState[ws] = "OPEN"
  /\ LET disconnection == handleDisconnection(ws)
     IN  /\ clients' = disconnection.clients
         /\ clientsByDeviceId' = disconnection.byDevice
         /\ sent' = disconnection.sent
         /\ handled' = [type |-> "socket-error", ws |-> ws,
                        deviceId |-> disconnection.deviceId]
  /\ readyState' = [readyState EXCEPT ![ws] = "CLOSED"]
  /\ health' = [health EXCEPT ![ws].heartbeat = << >>]
  /\ UNCHANGED <<now, pureVars, inFlight, pings, lockCalls, completions, pluginVars, dbVars, ioVars, chunkVars, queueVars>>

\* startPeriodicCleanup's interval and cleanupStaleConnections' threshold
cleanupInterval == heartbeatInterval * 2
staleThreshold == heartbeatInterval * 3

\* The sockets cleanupStaleConnections collects at time t.  (A socket whose
\* 'close' event is still to come is closing, not yet CLOSED.)
staleConnections(t) ==
  {ws \in Conns : /\ clients[ws] # << >>
                  /\ \/ t - clients[ws][1].lastSeen > staleThreshold
                     \/ readyState[ws] = "CLOSED" /\ health[ws].heartbeat = << >>}

\* removeClient for each socket of a set
RECURSIVE removeClients(_, _, _)
removeClients(sockets, cl, byDev) ==
  IF sockets = {} THEN [clients |-> cl, byDevice |-> byDev]
  ELSE LET ws == CHOOSE c \in sockets : TRUE
           removed == removeClientTables(ws, cl, byDev)
       IN  removeClients(sockets \ {ws}, removed.clients, removed.byDevice)

\* The cleanup timer fires: cleanupStaleConnections removes the stale sockets
\* from the tables and closes those that are open.
Sweep ==
  /\ now > 0
  /\ now % cleanupInterval = 0
  /\ staleConnections(now) # {}
  /\ LET stale == staleConnections(now)
         removed == removeClients(stale, clients, clientsByDeviceId)
     IN  /\ clients' = removed.clients
         /\ clientsByDeviceId' = removed.byDevice
         /\ readyState' = [c \in Conns |-> IF c \in stale THEN "CLOSED" ELSE readyState[c]]
         /\ handled' = [type |-> "sweep", stale |-> stale, clients |-> clients]
  /\ sent' = NothingSent
  /\ UNCHANGED <<now, pureVars, healthVars, dbVars, ioVars, chunkVars, queueVars>>

\* Time passes; a heartbeat timer that is due fires first.
TickTimers ==
  /\ now < MaxIdle
  /\ \A ws \in Conns : health[ws].heartbeat # << >> => health[ws].heartbeat[1] > now
  /\ now' = now + 1
  /\ Quiet
  /\ UNCHANGED <<pureVars, healthVars, dbVars, ioVars, connVars, chunkVars, queueVars>>

HeartbeatMessage == [BlankMessage EXCEPT !.type = "heartbeat"]

\* Devices A and B register on c1 and c2; pongs and heartbeat frames arrive or
\* fail to arrive; sockets close or fail.
NextHealth ==
  \/ TickTimers
  \/ RegisterDevice("c1", "V1", "A")
  \/ RegisterDevice("c2", "V1", "B")
  \/ \E ws \in Conns : Probe(ws)
  \/ \E ws \in {"c1", "c2"} : Pong(ws)
  \/ HandleMessage("c2", HeartbeatMessage)
  \/ SocketClose("c1")
  \/ SocketError("c1")
  \/ \E ws \in Conns : HandleDisconnection(ws)
  \/ Sweep

SpecHealth == Init /\ [][NextHealth]_vars

\* C28: a ping is sent to each open connection every heartbeat interval (the
\* timer of an open connection runs and is due within one interval, and a probe
\* that does not terminate pings the open connection and sets the next probe
\* one interval later); an open connection is terminated by a probe exactly
\* when the ping of the previous probe has had no pong; after the termination
\* the connection is closed, its timer is stopped and it is not in the
\* connection table.
C28_HeartbeatProbe ==
  [][/\ \A ws \in Conns :
          readyState'[ws] = "OPEN"
            => /\ health'[ws].heartbeat # << >>
               /\ health'[ws].heartbeat[1] >= now'
               /\ health'[ws].heartbeat[1] <= now' + heartbeatInterval
     /\ handled'.type = "probe"
          => LET ws == handled'.ws
             IN  /\ readyState[ws] = "OPEN" => (handled'.terminated <=> ws \in pings)
                 /\ handled'.terminated
                      => /\ readyState'[ws] = "CLOSED"
                         /\ health'[ws].heartbeat = << >>
                         /\ clients'[ws] = << >>
                         /\ \A d \in Devices : clientsByDeviceId'[d] # <<ws>>
                 /\ (~handled'.terminated /\ readyState[ws] = "OPEN")
                      => /\ ws \in pings'
                         /\ readyState'[ws] = "OPEN"
                         /\ clients'[ws] = clients[ws]
                         /\ health'[ws].heartbeat = <<now + heartbeatInterval>>]_vars

\* The probe terminates the open connection of a registered device that did not
\* answer, after letting a connection that answered live.
C28_SilentTerminated ==
  /\ handled.type = "probe"
  /\ handled.terminated
  /\ handled.deviceId = "A"
  /\ readyState["c2"] = "OPEN"
  /\ clients["c2"] # << >>
  /\ now >= 2 * heartbeatInterval

\* The open connections registered to the vault of info that belong to another
\* device, after the step.
OtherOpenOfVault(info) ==
  {c \in Conns : /\ clients'[c] # << >>
                 /\ clients'[c][1].vaultId = info.vaultId
                 /\ clients'[c][1].deviceId # info.deviceId
                 /\ readyState'[c] = "OPEN"}

\* The device-offline frame for a device is among the frames the step sent to c.
OfflineSent(c, deviceId) ==
  \E frame \in sent'[c] : frame.type = "device-offline" /\ frame.deviceId = deviceId

\* C26: whenever the connection of a registered device is terminated (it leaves
\* the connection table and the device is registered on no other connection),
\* by a client close, a socket error, a failed probe or the sweep, the other
\* open connections of its vault receive a device-offline frame for the device.
C26_OfflineOnEveryPath ==
  [][\A ws \in Conns :
       (/\ clients[ws] # << >>
        /\ clients'[ws] = << >>
        /\ clientsByDeviceId'[clients[ws][1].deviceId] = << >>)
         => \A c \in OtherOpenOfVault(clients[ws][1]) :
              OfflineSent(c, clients[ws][1].deviceId)]_vars

\* What the code does for C26: the close event, the socket error and the failed
\* probe of a registered device's connection send the device-offline frame to
\* the other open connections of its vault; the sweep sends nothing.
C26_OfflineUnlessSwept ==
  [][/\ (handled'.type \in {"disconnect", "socket-error", "probe"}
         /\ clients[handled'.ws] # << >> /\ clients'[handled'.ws] = << >>)
          => \A c \in OtherOpenOfVault(clients[handled'.ws][1]) :
               OfflineSent(c, clients[handled'.ws][1].deviceId)
     /\ handled'.type = "sweep" => sent' = NothingSent]_vars

\* The sweep has removed and closed the stale connection of device A while
\* device B's connection is open and registered to the same vault.
C26_SweptSilently ==
  /\ handled.type = "sweep"
  /\ handled.stale = {"c1"}
  /\ handled.clients["c1"][1].deviceId = "A"
  /\ readyState["c1"] = "CLOSED"
  /\ clients["c2"] # << >>
  /\ clients["c2"][1].vaultId = "V1"
  /\ readyState["c2"] = "OPEN"
  /\ sent["c2"] = {}

\* ------------------------------------------- writes of a closed connection

\* C31: a write-class task enqueued before its connection closed is not
\* cancelled: no enqueued task is ever dropped and tasks settle in queue order;
\* when the task of a closed connection is accepted, its FileRecord is in the
\* Metadata Store and every other open connection of the tree receives the
\* file-change frame, while the closed sender receives nothing.
C31_ClosedSenderStillApplied ==
  /\ \A i \in 1..(nextTaskId - 1) :
       \/ \E k \in tasks : k.id = i
       \/ \E j \in 1..Len(settled) : settled[j] = i
  /\ \A i, j \in 1..Len(settled) : i < j => settled[i] < settled[j]
  /\ (ChangeAccepted /\ readyState[handled.ws] = "CLOSED")
       => /\ \E f \in files : /\ f.vaultId = handled.message.vaultId
                              /\ f.path = handled.message.filePath
                              /\ f.hash = handled.message.hash
          /\ \A c \in OtherOpenConnections(handled.message.vaultId,
                                           handled.message.deviceId) : Delivered(c)
          /\ sent[handled.ws] = {}

\* The write of a connection that closed after enqueueing it is accepted and
\* reaches an open connection of the tree.
C31_ClosedSenderDelivered ==
  /\ ChangeAccepted
  /\ readyState[handled.ws] = "CLOSED"
  /\ clients[handled.ws] = << >>
  /\ \E c \in Conns : c # handled.ws /\ Delivered(c)

\* ------------------------------------------------- concurrent lock requests

\* A request-lock frame arrives: requestFileLock opens its transaction and reads
\* the Device row, the File row and the FileLock row of the file.
BeginRequestLock(ws, message) ==
  /\ readyState[ws] = "OPEN"
  /\ message.type = "request-lock"
  /\ message.deviceId \in devices
  /\ findFirst(message.vaultId, message.filePath) # << >>
  /\ Cardinality(lockCalls) < MaxInFlight
  /\ LET file == findFirst(message.vaultId, message.filePath)[1]
         found == {l \in locks : l.fileId = file.id}
     IN  lockCalls' = lockCalls \cup
           {[ws |-> ws, message |-> message, file |-> file, at |-> now,
             existingLock |-> IF found = {} THEN << >> ELSE <<CHOOSE l \in found : TRUE>>]}
  /\ Quiet
  /\ UNCHANGED <<now, pureVars, inFlight, health, pings, completions, pluginVars, dbVars, ioVars, connVars,
                 chunkVars, queueVars>>

\* The writes of a requestFileLock transaction that read `call`, at time t.  An
\* update or delete of a row that is gone throws P2025, which handlePrismaError
\* turns into FILE_NOT_FOUND; a create that meets a row of the same file throws
\* P2002, which the transaction turns into a denial.
writeFileLock(call, t) ==
  LET deviceId == call.message.deviceId
      existingLock == call.existingLock
      rows == IF existingLock = << >> THEN {}
              ELSE {l \in locks : l.id = existingLock[1].id}
      present == rows # {}
      failed == [success |-> FALSE, expiresAt |-> << >>, locks |-> locks,
                 nextLockId |-> nextLockId, error |-> "FILE_NOT_FOUND"]
      denied == [failed EXCEPT !.error = "none"]
  IN  IF existingLock # << >> /\ existingLock[1].expiresAt > call.at
      THEN IF SameHolder(existingLock[1], deviceId)
           THEN IF ~present THEN failed
                ELSE [denied EXCEPT !.success = TRUE, !.expiresAt = <<LeaseExpiry(t)>>,
                        !.locks = (locks \ rows)
                                    \cup {[l EXCEPT !.expiresAt = LeaseExpiry(t),
                                                    !.lockedAt = call.at] : l \in rows}]
           ELSE [denied EXCEPT !.expiresAt = <<existingLock[1].expiresAt>>]
      ELSE IF existingLock # << >> /\ ~present THEN failed
      ELSE LET cleaned == locks \ rows
               newLock == [id |-> nextLockId, vaultId |-> call.message.vaultId,
                           fileId |-> call.file.id, deviceId |-> deviceId,
                           lockedAt |-> call.at, expiresAt |-> LeaseExpiry(t)]
           IN  IF \E l \in cleaned : l.fileId = newLock.fileId
               THEN [denied EXCEPT !.locks = cleaned]
               ELSE [denied EXCEPT !.success = TRUE, !.expiresAt = <<LeaseExpiry(t)>>,
                       !.locks = cleaned \cup {newLock},
                       !.nextLockId = nextLockId + 1]

\* The transaction of a request-lock frame writes and returns; the gateway
\* answers the frame.
FinishRequestLock(call) ==
  /\ call \in lockCalls
  /\ nextLockId <= MaxLocks
  /\ lockCalls' = lockCalls \ {call}
  /\ \E lockResult \in {writeFileLock(call, now)} :
       /\ locks' = lockResult.locks
       /\ nextLockId' = lockResult.nextLockId
       /\ sent' = IF lockResult.error # "none"
                  THEN Sends(call.ws, {ErrorFrame(lockResult.error)}, {}, {})
                  ELSE Sends(call.ws, {handleRequestLock(call.message, lockResult, now)},
                             {}, {})
       /\ handled' = [type |-> "request-lock", ws |-> call.ws, message |-> call.message,
                      error |-> lockResult.error, held |-> locks,
                      existing |-> <<call.file>>,
                      result |-> [success |-> lockResult.success,
                                  expiresAt |-> lockResult.expiresAt],
                      call |-> <<call>>]
  /\ UNCHANGED <<now, pureVars, inFlight, health, pings, completions, pluginVars, devices, files, nextFileId,
                 ioVars, connVars, chunkVars, queueVars>>

\* Devices A and B register, A creates a.md, and both ask for its lock; the
\* transactions of the requests interleave.
NextAcquire ==
  \/ Tick
  \/ now = 0 /\ RegisterDevice("c1", "V1", "A")
  \/ now = 0 /\ RegisterDevice("c2", "V1", "B")
  \/ \E m \in LockFileMessages : files = {} /\ tasks = {} /\ Enqueue("c1", m)
  \/ \E k \in tasks : StartTask(k)
  \/ \E k \in tasks : FinishTask(k)
  \/ BeginRequestLock("c1", [LockFrame EXCEPT !.type = "request-lock", !.deviceId = "A"])
  \/ BeginRequestLock("c2", [LockFrame EXCEPT !.type = "request-lock", !.deviceId = "B"])
  \/ \E call \in lockCalls : FinishRequestLock(call)

SpecAcquire == Init /\ [][NextAcquire]_vars

\* The request the last step answered found the file unlocked when it read: no
\* FileLock row, or an expired one.
UnlockedWhenRead ==
  /\ handled.type = "request-lock"
  /\ LET call == handled.call[1]
     IN  call.existingLock = << >> \/ call.existingLock[1].expiresAt <= call.at

\* The FileLock rows of the file the last step's request names.
RowsOfFile == {l \in locks : l.fileId = handled.existing[1].id}

\* C32: a request for the lock of a file that was unlocked when the request
\* read it ends without an error whatever other request ran meanwhile: it
\* succeeds or is denied, exactly one lock row of the file exists afterwards,
\* and the request succeeded exactly when that row belongs to its device and
\* was written by it.
C32_OneWinnerOneDenial ==
  UnlockedWhenRead
    => /\ handled.error = "none"
       /\ Cardinality(RowsOfFile) = 1
       /\ handled.result.success
            <=> \E l \in RowsOfFile : /\ l.deviceId = handled.message.deviceId
                                      /\ l \notin handled.held

\* What the code does for C32: when the file had no lock row at all, the race
\* is decided by the unique constraint, without an error.
C32_NoRowOneWinner ==
  (handled.type = "request-lock" /\ handled.call[1].existingLock = << >>)
    => /\ handled.error = "none"
       /\ Cardinality(RowsOfFile) = 1
       /\ handled.result.success
            <=> \E l \in RowsOfFile : /\ l.deviceId = handled.message.deviceId
                                      /\ l \notin handled.held

\* Two requests read the file without a lock row; the second to write is denied.
C32_LoserDenied ==
  /\ handled.type = "request-lock"
  /\ handled.call[1].existingLock = << >>
  /\ ~handled.result.success
  /\ handled.error = "none"
  /\ \E l \in RowsOfFile : l.deviceId # handled.message.deviceId

\* ------------------------------------------------------------ awaiting a chunk payload

\* The bytes of a text frame are those of its JSON text: the braces and a
\* quote at the least, more than the one-byte chunks of the frames above.
toBuffer(message) == <<123, 34, 125>>

\* WebSocketGateway.handleMessage for a text frame that the socket library
\* hands over as a Buffer while the connection waits for a payload: it is
\* taken for the payload.  (A text frame handed over as a string is parsed and
\* routed: the ChunkUploadStart and ChunkData steps of a waiting connection.)
TextFrameAsBuffer(ws, message) == BinaryChunkData(ws, toBuffer(message))

AwaitConns == {"c1", "c2"}

NextAwait ==
  \/ Tick
  \/ now = 0 /\ RegisterDevice("c1", "V1", "A")
  \/ \E m \in ChunkStartFrames : ChunkUploadStart("c1", m)
  \/ \E c \in AwaitConns, m \in ChunkDataFrames : ChunkData(c, m)
  \/ \E c \in AwaitConns, data \in ChunkPayloads : BinaryChunkData(c, data)
  \/ \E c \in AwaitConns, m \in ChunkDataFrames : TextFrameAsBuffer(c, m)

SpecAwait == Init /\ [][NextAwait]_vars

\* The step handled a chunk frame of connection c: only its sender is answered
\* with chunk-upload-response.
ChunkFrameHandled(c) == \E f \in sent'[c] : f.type = "chunk-upload-response"

\* The step put connection c into the waiting state by accepting chunk-data
\* metadata that names an existing session.
EnteredByMetadata(c) ==
  LET message == chunkState'[c][1]
  IN  /\ message.type = "chunk-data"
      /\ chunkSessions[buildSessionId(message.vaultId, message.deviceId,
                                      message.filePath)] # << >>
      /\ ChunkResponse(message.filePath, TRUE, message.chunkIndex) \in sent'[c]

NextReject ==
  \/ now = 0 /\ RegisterDevice("c1", "V1", "A")
  \/ now = 0 /\ RegisterDevice("c2", "V1", "B")
  \/ \E m \in FileChangeFrames : tasks = {} /\ Enqueue("c1", m)
  \/ \E k \in tasks : StartTask(k)
  \/ \E k \in tasks : FinishTask(k)
  \/ \E o \in pendingIO : FinishIO(o)

SpecReject == Init /\ [][NextReject]_vars

\* The step ran a file-change that conflict resolution rejected.
ChangeRejectedNext ==
  /\ handled'.type = "file-change"
  /\ handled'.error = "none"
  /\ ~handled'.result.success

\* C34: a file-change that conflict resolution rejects has no effect visible to
\* other replicas: the FileRecord and the Content Store bytes of the path are
\* unchanged and no file-change broadcast for it is sent to any other
\* connection of the tree.
C34_RejectedInvisible ==
  [][ChangeRejectedNext
       => /\ files' = files
          /\ storage' = storage
          /\ pendingIO' = pendingIO
          /\ \A c \in Conns \ {handled'.ws} : ~\E f \in sent'[c] : f.type = "file-change"]_vars

\* C34, as far as it holds: the rejected change leaves the FileRecord and the
\* Content Store as they were and starts no Content Store write.
C34_RejectedNotStored ==
  [][ChangeRejectedNext
       => /\ files' = files
          /\ storage' = storage
          /\ pendingIO' = pendingIO
          /\ handled'.io = {}]_vars

\* A rejected change of A has been sent on to the connection of B.
C34_RejectedBroadcast ==
  /\ handled.type = "file-change"
  /\ handled.error = "none"
  /\ ~handled.result.success
  /\ handled.result.conflictType \in {"hash_mismatch", "older_timestamp"}
  /\ \E f \in sent["c2"] : f.type = "file-change" /\ f.content = handled.message.content

\* ------------------------------------------------------------ a completion and a restart

\* ChunkSessionService.completeUpload up to its await of storage.writeFile:
\* the session of the key was looked up, is whole and has the declared size
\* and hash; the call keeps the session it verified and the assembled bytes.
AwaitCompletionWrite(k) ==
  /\ k.st = "running"
  /\ k.message.type = "chunk-upload-complete"
  /\ \A c \in completions : c.task # k.id
  /\ LET sessionId == buildSessionId(k.message.vaultId, k.message.deviceId,
                                     k.message.filePath)
     IN  \E completion \in {completeUpload(sessionId)} :
           /\ completion.success
           /\ completions' = completions \cup
                {[task |-> k.id, sessionId |-> sessionId,
                  session |-> chunkSessions[sessionId][1],
                  fileHash |-> completion.fileHash, fileSize |-> completion.fileSize,
                  content |-> completion.storage[<<k.message.vaultId,
                                                   k.message.filePath>>]]}
  /\ Quiet
  /\ UNCHANGED <<now, pureVars, inFlight, health, pings, lockCalls, pluginVars, dbVars,
                 ioVars, connVars, chunkVars, queueVars>>

\* The Content Store write of completion c has finished: completeUpload deletes
\* the entry of the session key and returns, and handleChunkUploadComplete
\* records the result and answers.
FinishCompletion(c) ==
  /\ c \in completions
  /\ completions' = completions \ {c}
  /\ \E k \in tasks :
       /\ k.id = c.task
       /\ LET completion ==
                [success |-> TRUE, fileHash |-> c.fileHash, fileSize |-> c.fileSize,
                 missingChunks |-> << >>,
                 sessions |-> cancelSession(chunkSessions, c.sessionId),
                 storage |-> [storage EXCEPT
                    ![<<c.session.vaultId, c.session.filePath>>] = c.content]]
          IN  \E h \in {recordCompletion(k.message, completion, now)} : Settle(k, h)
  /\ UNCHANGED <<inFlight, health, pings, lockCalls, pluginVars>>

Awaiting(k) == \E c \in completions : c.task = k.id

\* Device A uploads a.md in chunks, asks for the completion and starts the
\* upload of the same path again.
NextOverlap ==
  \/ RegisterDevice("c1", "V1", "A")
  \/ \E m \in ChunkStartFrames : ChunkUploadStart("c1", m)
  \/ \E m \in ChunkDataFrames : chunkState["c1"] = << >> /\ ChunkData("c1", m)
  \/ \E data \in ChunkPayloads : BinaryChunkData("c1", data)
  \/ tasks = {} /\ Enqueue("c1", ChunkCompleteFrame)
  \/ \E k \in tasks : StartTask(k)
  \/ \E k \in tasks : ~Awaiting(k) /\ FinishTask(k)
  \/ \E k \in tasks : AwaitCompletionWrite(k)
  \/ \E c \in completions : FinishCompletion(c)

SpecOverlap == Init /\ [][NextOverlap]_vars

\* The session of a.md before the last step.
UploadKey == buildSessionId("V1", "A", "a.md")

\* C35: a completion destroys only the session whose chunks it verified: a
\* session created for the same key by a chunk-upload-start handled while the
\* completion awaited the Content Store write still exists after the
\* completion has finished.
C35_OnlyVerifiedSessionDestroyed ==
  [][\A c \in completions \ completions' :
       chunkSessions'[c.sessionId] =
         IF chunkSessions[c.sessionId] = <<c.session>> THEN << >>
         ELSE chunkSessions[c.sessionId]]_vars

\* C35 for what the code does: a finished completion leaves no session under
\* its key, whichever session was there, leaves the other sessions alone and
\* has stored the bytes it verified.
C35_CompletionClearsKey ==
  [][\A c \in completions \ completions' :
       /\ chunkSessions'[c.sessionId] = << >>
       /\ \A id \in SessionIds \ {c.sessionId} : chunkSessions'[id] = chunkSessions[id]
       /\ storage'[<<c.session.vaultId, c.session.filePath>>] = c.content]_vars

\* A completion has finished and removed a session that was started, and had
\* received nothing, while the completion awaited its write.
C35_RestartedSessionLost ==
  /\ handled.type = "chunk-upload-complete"
  /\ handled.error = "none"
  /\ handled.result.success
  /\ handled.sessions[UploadKey] # << >>
  /\ handled.sessions[UploadKey][1].receivedChunks = << >>
  /\ chunkSessions[UploadKey] = << >>

\* ------------------------------------------------------------ what a completion records

\* chunk-upload-complete frames without and with hash and size fields of their
\* own, which are not those of the uploaded bytes.
CompleteFrames ==
  {[ChunkCompleteFrame EXCEPT !.hash = h, !.fileSize = n] :
     h \in {<< >>, calculateHash(<<2, 2>>)}, n \in {<< >>, <<3>>}}

NextRecord ==
  \/ RegisterDevice("c1", "V1", "A")
  \/ \E m \in ChunkStartFrames : ChunkUploadStart("c1", m)
  \/ \E m \in ChunkDataFrames : chunkState["c1"] = << >> /\ ChunkData("c1", m)
  \/ \E data \in ChunkPayloads : BinaryChunkData("c1", data)
  \/ \E m \in CompleteFrames : tasks = {} /\ Enqueue("c1", m)
  \/ \E k \in tasks : StartTask(k)
  \/ \E k \in tasks : FinishTask(k)

SpecRecord == Init /\ [][NextRecord]_vars

\* The last step completed a chunked upload with success.
CompletionRecorded ==
  /\ handled.type = "chunk-upload-complete"
  /\ handled.error = "none"
  /\ handled.result.success

\* The bytes the Content Store holds for the path of the last step's frame.
StoredBlob ==
  fromBase64(storage[<<handled.message.vaultId, handled.message.filePath>>][1])

\* The FileRecord of the path of the last step's frame.
RecordAfter == findFirst(handled.message.vaultId, handled.message.filePath)[1]

\* C36: after a successful chunk-upload-complete the FileRecord of the path
\* holds the content hash and the byte size of the blob that was verified and
\* written to the Content Store, whatever hash and size the message carries.
C36_RecordOfVerifiedBlob ==
  CompletionRecorded
    => /\ RecordAfter.hash = calculateHash(StoredBlob)
       /\ RecordAfter.size = Len(StoredBlob)

\* C36 for what the code does: the record holds the hash and the size of the
\* message where the message carries them, and those of the verified blob
\* where it does not.
C36_RecordOfMessageFirst ==
  CompletionRecorded
    => /\ RecordAfter.hash = IF handled.message.hash # << >> THEN handled.message.hash
                             ELSE calculateHash(StoredBlob)
       /\ RecordAfter.size = IF handled.message.fileSize # << >>
                             THEN handled.message.fileSize[1]
                             ELSE Len(StoredBlob)

\* A completion has recorded the hash and the size of its message, which are
\* not those of the stored blob.
C36_MessageHashRecorded ==
  /\ CompletionRecorded
  /\ handled.message.hash # << >>
  /\ RecordAfter.hash # calculateHash(StoredBlob)
  /\ RecordAfter.size # Len(StoredBlob)

\* ------------------------------------------------------------ the order of Content Store writes

\* The write queue is empty and every Content Store operation has finished.
AllWritesFinished == tasks = {} /\ pendingIO = {}

\* C37: when two accepted full writes of one path went through the write queue
\* as W1 then W2, then once all Content Store writes have finished the stored
\* bytes are those of W2: the content of the store has the hash of the
\* FileRecord.
C37_LastWriteStored ==
  AllWritesFinished
    => \A f \in files :
         /\ storage[<<f.vaultId, f.path>>] # << >>
         /\ calculateHash(storage[<<f.vaultId, f.path>>][1]) = f.hash

\* C37, as far as it holds: every Content Store write that a step starts
\* carries the content whose hash that step put into the FileRecord, and every
\* write that finishes leaves exactly its own bytes; the order in which started
\* writes finish is not constrained.
C37_WritesCarryRecordedContent ==
  [][/\ \A o \in pendingIO' \ pendingIO :
          /\ o.op = "write"
          /\ handled'.result.success
          /\ handled'.result.updated \in {"created", "full"}
          /\ \E f \in files' : /\ f.vaultId = o.vaultId
                               /\ f.path = o.path
                               /\ f.hash = calculateHash(o.content)
     /\ \A o \in pendingIO \ pendingIO' :
          storage'[<<o.vaultId, o.path>>] = <<o.content>>]_vars

\* Both writes have finished, the store holds the bytes of the first and the
\* FileRecord the hash of the second.
C37_FirstWriteLandedLast ==
  /\ AllWritesFinished
  /\ Len(settled) = 2
  /\ \E f \in files :
       /\ f.version = 2
       /\ storage[<<f.vaultId, f.path>>] # << >>
       /\ calculateHash(storage[<<f.vaultId, f.path>>][1]) # f.hash

\* ------------------------------------------------------------ the two connection tables

\* Connection c is in the connection table, bound to device id d.
BoundTo(c, d) == clients[c] # << >> /\ clients[c][1].deviceId = d

\* C38: after any sequence of registerClient and removeClient calls the two
\* tables agree: the device-id index maps d to c if and only if c is in the
\* connection table bound to d, also when a connection registers more than
\* once with different device ids.
C38_TablesAgree ==
  \A c \in Conns, d \in Devices : clientsByDeviceId[d] = <<c>> <=> BoundTo(c, d)

\* C38, the half that holds: a connection in the connection table is the one
\* the index gives for its device id.
C38_BoundIsIndexed ==
  \A c \in Conns, d \in Devices : BoundTo(c, d) => clientsByDeviceId[d] = <<c>>

\* A connection has registered as A and then as B: the index still maps A to it.
C38_StaleIndexEntry ==
  /\ BoundTo("c1", "B")
  /\ clientsByDeviceId["A"] = <<"c1">>
  /\ clientsByDeviceId["B"] = <<"c1">>

\* ------------------------------------------------------------ whose message it is

\* c1 registers as device A and c2 as device B of V1; c3 never registers.  Every
\* connection sends a write, a lock request and a chunk-upload-start whose
\* body names V1 and device A.
NextIdentity ==
  \/ RegisterDevice("c1", "V1", "A")
  \/ RegisterDevice("c2", "V1", "B")
  \/ \E ws \in Conns, m \in LockFileMessages : tasks = {} /\ Enqueue(ws, m)
  \/ \E k \in tasks : StartTask(k)
  \/ \E k \in tasks : FinishTask(k)
  \/ \E ws \in Conns : RequestLock(ws, [LockFrame EXCEPT !.type = "request-lock",
                                                        !.deviceId = "A"])
  \/ \E ws \in Conns, m \in ChunkStartFrames : ChunkUploadStart(ws, m)

SpecIdentity == Init /\ [][NextIdentity]_vars

\* The last step applied a write-class message to the FileRecords.
WriteApplied ==
  /\ handled.type \in WriteTypes
  /\ handled.error = "none"
  /\ handled.result.success
  /\ handled.result.updated \in {"created", "full", "mtime_only"}

\* The last step granted a lock.
LockApplied == handled.type = "request-lock" /\ handled.result.success

\* The last step created a chunk session.
SessionApplied == handled.type = "chunk-upload-start" /\ ~handled.invalid

\* The connection of the last step's message is registered with the tree and
\* the device id the message names.
SenderIsNamed ==
  /\ clients[handled.ws] # << >>
  /\ clients[handled.ws][1].vaultId = handled.message.vaultId
  /\ clients[handled.ws][1].deviceId = handled.message.deviceId

\* C39: a write-class, lock or chunk message is applied only for the identity
\* of the connection that sent it: for the tree and the device id the
\* connection registered with, never for ids that only appear in the message
\* body, and never before the connection has registered.
C39_OwnIdentityOnly ==
  (WriteApplied \/ LockApplied \/ SessionApplied) => SenderIsNamed

\* C39 for what the code does: a write or a lock is applied for a device id
\* that has a Device row, whichever connection sent the message.
C39_NamedDeviceExists ==
  (WriteApplied \/ LockApplied) => handled.message.deviceId \in devices

\* The write of the connection that never registered has been applied under
\* the device id of its body and sent on to the connection of B.
C39_UnregisteredWriteApplied ==
  /\ WriteApplied
  /\ handled.ws = "c3"
  /\ clients["c3"] = << >>
  /\ handled.message.deviceId = "A"
  /\ \E f \in files : f.path = handled.message.filePath
  /\ Delivered("c2")

\* ------------------------------------------------------------ the plugin's chunk manager

\* The file the plugin uploads: two bytes, which make one chunk of CHUNK_SIZE.
UploadPath == "a.md"
FileData == <<1, 2>>
CHUNK_SIZE == 2
MAX_RETRIES == 3
MaxUploads == 3

\* Math.ceil(fileData.byteLength / CHUNK_SIZE)
TotalChunks == (Len(FileData) + CHUNK_SIZE - 1) \div CHUNK_SIZE

\* fileData.slice(start, end) of chunk i
ChunkOf(i) ==
  SubSeq(FileData, i * CHUNK_SIZE + 1,
         IF (i + 1) * CHUNK_SIZE < Len(FileData) THEN (i + 1) * CHUNK_SIZE
         ELSE Len(FileData))

PluginFrame ==
  [BlankMessage EXCEPT !.vaultId = "V1", !.deviceId = "A", !.filePath = UploadPath,
                       !.hash = calculateHash(FileData)]

\* ChunkManager.startChunkUpload: the chunk-upload-start message
startMessage ==
  [PluginFrame EXCEPT !.type = "chunk-upload-start", !.fileSize = <<Len(FileData)>>,
                      !.totalChunks = TotalChunks, !.timestamp = <<1>>]

\* ChunkManager.sendChunk: the chunk-data message; the chunk hash is the text
\* chunk_<index>_<length>
chunkMessage(i) ==
  [PluginFrame EXCEPT !.type = "chunk-data", !.chunkIndex = i,
                      !.chunkSize = Len(ChunkOf(i)),
                      !.chunkHash = <<"chunk", i, Len(ChunkOf(i))>>]

\* ChunkManager.sendUploadComplete: the chunk-upload-complete message
completeMessage ==
  [PluginFrame EXCEPT !.type = "chunk-upload-complete", !.fileSize = <<Len(FileData)>>,
                      !.totalChunks = TotalChunks]

TextFrame(message) == [binary |-> FALSE, message |-> message, data |-> << >>]
BinaryFrame(data) == [binary |-> TRUE, message |-> BlankMessage, data |-> data]

\* ChunkManager.startChunkUpload of a file that is not being uploaded: the
\* state is created, the start message sent and chunk 0 scheduled.
StartChunkUpload ==
  /\ activeUploads[UploadPath] = << >>
  /\ Len(completed) < MaxUploads
  /\ readyState["c1"] = "OPEN"
  /\ activeUploads' = [activeUploads EXCEPT ![UploadPath] =
       <<[sentChunks |-> {}, confirmedChunks |-> {}, totalChunks |-> TotalChunks,
          retryCount |-> 0]>>]
  /\ outbox' = Append(outbox, TextFrame(startMessage))
  /\ chunkTimers' = chunkTimers \cup {<<UploadPath, 0>>}
  /\ Quiet
  /\ UNCHANGED <<now, pureVars, inFlight, health, pings, lockCalls, completions,
                 completed, inbox, dbVars, ioVars, connVars, chunkVars, queueVars>>

\* ChunkManager.completeUpload: timers cleared, state removed, onComplete called
ChunkManagerCompleteUpload(uploads, timers, done, out, filePath, success) ==
  [uploads |-> [uploads EXCEPT ![filePath] = << >>],
   timers |-> {t \in timers : t[1] # filePath},
   completed |-> Append(done, [filePath |-> filePath, success |-> success]),
   outbox |-> out]

\* ChunkManager.scheduleNextChunk for the upload state st of filePath
scheduleNextChunk(uploads, timers, done, out, filePath, st) ==
  LET unsent == {i \in 0..(st.totalChunks - 1) : i \notin st.sentChunks}
      first == CHOOSE i \in unsent : \A j \in unsent : i <= j
  IN  [uploads |-> [uploads EXCEPT ![filePath] = <<st>>],
       timers |-> IF Cardinality(st.confirmedChunks) # st.totalChunks /\ unsent # {}
                  THEN timers \cup {<<filePath, first>>} ELSE timers,
       completed |-> done,
       outbox |-> IF Cardinality(st.confirmedChunks) = st.totalChunks
                  THEN Append(out, TextFrame(completeMessage)) ELSE out]

\* ChunkManager.retryChunks
retryChunks(uploads, timers, done, out, filePath, st, missingChunks) ==
  IF st.retryCount >= MAX_RETRIES
  THEN ChunkManagerCompleteUpload(uploads, timers, done, out, filePath, FALSE)
  ELSE [uploads |-> [uploads EXCEPT ![filePath] =
                       <<[st EXCEPT !.retryCount = @ + 1,
                                    !.sentChunks = @ \ missingChunks,
                                    !.confirmedChunks = @ \ missingChunks]>>],
        timers |-> timers \cup {<<filePath, i>> : i \in missingChunks},
        completed |-> done,
        outbox |-> out]

\* ChunkManager.handleChunkResponse
handleChunkResponse(response) ==
  LET filePath == response.filePath
      chunkIndex == response.version
      unchanged == [uploads |-> activeUploads, timers |-> chunkTimers,
                    completed |-> completed, outbox |-> outbox]
  IN  IF activeUploads[filePath] = << >> THEN unchanged
      ELSE
        LET st == activeUploads[filePath][1]
        IN  IF response.success
            THEN IF chunkIndex = -1
                 THEN ChunkManagerCompleteUpload(activeUploads, chunkTimers, completed, outbox,
                                      filePath, TRUE)
                 ELSE scheduleNextChunk(activeUploads, chunkTimers, completed, outbox,
                        filePath, [st EXCEPT !.confirmedChunks = @ \cup {chunkIndex}])
            ELSE IF response.missingChunks # << >> /\ response.missingChunks[1] # {}
                 THEN retryChunks(activeUploads, chunkTimers, completed, outbox,
                                  filePath, st, response.missingChunks[1])
                 ELSE ChunkManagerCompleteUpload(activeUploads, chunkTimers, completed, outbox,
                                      filePath, FALSE)

\* The plugin receives the next chunk-upload-response frame.
HandleChunkResponse ==
  /\ inbox # << >>
  /\ \E r \in {handleChunkResponse(Head(inbox).frame)} :
       /\ activeUploads' = r.uploads
       /\ chunkTimers' = r.timers
       /\ completed' = r.completed
       /\ outbox' = r.outbox
  /\ inbox' = Tail(inbox)
  /\ Quiet
  /\ UNCHANGED <<now, pureVars, inFlight, health, pings, lockCalls, completions,
                 dbVars, ioVars, connVars, chunkVars, queueVars>>

\* ChunkManager.sendChunk, run by the timer of chunk i: the metadata message
\* and then the bytes
SendChunk(filePath, i) ==
  /\ <<filePath, i>> \in chunkTimers
  /\ chunkTimers' = chunkTimers \ {<<filePath, i>>}
  /\ IF activeUploads[filePath] = << >>
     THEN UNCHANGED <<activeUploads, outbox>>
     ELSE /\ outbox' = outbox \o <<TextFrame(chunkMessage(i)), BinaryFrame(ChunkOf(i))>>
          /\ activeUploads' = [activeUploads EXCEPT ![filePath] =
               <<[@[1] EXCEPT !.sentChunks = @ \cup {i}]>>]
  /\ Quiet
  /\ UNCHANGED <<now, pureVars, inFlight, health, pings, lockCalls, completions,
                 completed, inbox, dbVars, ioVars, connVars, chunkVars, queueVars>>

\* The chunk-upload-response frames the step sends to the plugin's connection,
\* with the kind of message they answer.
Answers(kind) ==
  LET responses == {f \in sent'["c1"] : f.type = "chunk-upload-response"}
  IN  IF responses = {} THEN << >>
      ELSE <<[frame |-> CHOOSE f \in responses : TRUE, answers |-> kind]>>

\* The server receives the plugin's next frame and handles it.
Received(kind) ==
  /\ outbox' = Tail(outbox)
  /\ inbox' = inbox \o Answers(kind)
  /\ UNCHANGED <<inFlight, health, pings, lockCalls, completions, activeUploads,
                 chunkTimers, completed>>

ReceiveStart ==
  /\ outbox # << >> /\ ~Head(outbox).binary
  /\ handleChunkUploadStart("c1", Head(outbox).message)
  /\ Received("chunk-upload-start")

ReceiveChunkData ==
  /\ outbox # << >> /\ ~Head(outbox).binary
  /\ handleChunkData("c1", Head(outbox).message)
  /\ Received("chunk-data")

ReceiveBinary ==
  /\ outbox # << >> /\ Head(outbox).binary
  /\ handleBinaryChunkData("c1", Head(outbox).data)
  /\ Received("chunk-data")

ReceiveComplete ==
  /\ outbox # << >> /\ ~Head(outbox).binary
  /\ Head(outbox).message.type = "chunk-upload-complete"
  /\ readyState["c1"] = "OPEN"
  /\ enqueueWriteOperation("c1", Head(outbox).message)
  /\ Quiet
  /\ UNCHANGED <<now, pureVars, dbVars, ioVars, connVars, chunkVars, settled, rejected>>
  /\ Received("chunk-upload-complete")

\* The handler of the queued chunk-upload-complete ends and answers.
FinishComplete(k) ==
  /\ k.st = "running"
  /\ \E h \in {writeHandler(k.message, now)} : Settle(k, h)
  /\ inbox' = inbox \o Answers("chunk-upload-complete")
  /\ UNCHANGED <<inFlight, health, pings, lockCalls, completions, activeUploads,
                 chunkTimers, completed, outbox>>

NextUpload ==
  \/ RegisterDevice("c1", "V1", "A")
  \/ StartChunkUpload
  \/ \E i \in ChunkIndexes : SendChunk(UploadPath, i)
  \/ ReceiveStart
  \/ ReceiveChunkData
  \/ ReceiveBinary
  \/ ReceiveComplete
  \/ \E k \in tasks : StartTask(k)
  \/ \E k \in tasks : FinishComplete(k)
  \/ HandleChunkResponse

SpecUpload == Init /\ [][NextUpload]_vars

\* The step called onComplete with success: the upload is reported as
\* successfully completed and its state removed.
ReportedComplete ==
  /\ Len(completed') = Len(completed) + 1
  /\ completed'[Len(completed')].success
  /\ activeUploads'[completed'[Len(completed')].filePath] = << >>

\* C40: the ChunkManager reports an upload as successfully completed only
\* after the server has answered its chunk-upload-complete message with
\* success; the server's success acknowledgements of chunk-upload-start and of
\* chunk-data messages never complete the upload.
C40_CompleteOnlyOnCompleteAck ==
  [][ReportedComplete
       => /\ inbox # << >>
          /\ Head(inbox).frame.success
          /\ Head(inbox).answers = "chunk-upload-complete"]_vars

\* C40 for what the code does: an upload is reported as successfully completed
\* when a success response with chunk index -1 arrives for a path that is
\* being uploaded, whichever message the response answers.
C40_CompleteOnIndexMinusOne ==
  [][ReportedComplete
       => /\ inbox # << >>
          /\ Head(inbox).frame.success
          /\ Head(inbox).frame.version = -1
          /\ activeUploads[Head(inbox).frame.filePath] # << >>]_vars

\* The first upload has been reported as successfully completed while the
\* server has stored no chunk of it and has been sent no chunk-upload-complete.
C40_CompletedByStartAck ==
  /\ Len(completed) = 1
  /\ completed[1].success
  /\ nextTaskId = 1
  /\ \A i \in 1..Len(outbox) : outbox[i].message.type # "chunk-upload-complete"
  /\ chunkSessions[UploadKey] # << >>
  /\ chunkSessions[UploadKey][1].receivedChunks = << >>

====
